---- MODULE Spec2Model ----
(***************************************************************************)
(* Model of the warehouse layout optimizer (src/optimization.py) and of    *)
(* the collaborators it calls (src/ml_predictor.py,                        *)
(* src/picking_optimizer.py).                                              *)
(*                                                                         *)
(* Units.  Every length is an integer number of tenths of a metre, so the  *)
(* grid resolution 0.5 is 5, the scan slack 0.1 is 1 and the clearance 1.0 *)
(* is 10.  Volumes are in thousandths of a cubic metre.  Percentages and   *)
(* rounded volumes are integers counting hundredths (5.33 is 533).         *)
(* Arithmetic is exact.  Binary floating point error is modelled in one    *)
(* place, the centre of the picking planner's minimum distance (see        *)
(* InexactMeans), where it decides between a return and an exception.      *)
(*                                                                         *)
(* One optimize() call is modelled as a start step, one step per iteration *)
(* of the strategy's loop over the units, and a final step that computes   *)
(* the result; pc is the position of the call.  A picking request and a    *)
(* workflow request are one step each (PickSpec, WorkflowSpec), and        *)
(* ExpansionSpec applies the unit expansion of optimize() alone.           *)
(***************************************************************************)
EXTENDS Integers, Sequences, FiniteSets, TLC

\* ------------------------------------------------------------------ bounds
\* the longest item list handed to one optimize call
MaxItems == 2

\* --------------------------------------------------------- program constants
grid_resolution == 5
type_distance_constraint == 10
ScanSlack == 1
ZOrderLimit == 1000

\* ------------------------------------------------------------------ helpers
Min(a, b) == IF a < b THEN a ELSE b
Max(a, b) == IF a > b THEN a ELSE b
Abs(a) == IF a < 0 THEN -a ELSE a
None == <<>>

\* the element of a one-element set; {e(x) : x \in {v}} names the value v
\* once, so that it is computed once
TheOne(S) == CHOOSE r \in S : TRUE

RECURSIVE SumTo(_, _)
\* s[1] + ... + s[n]
SumTo(s, n) == IF n = 0 THEN 0 ELSE s[n] + SumTo(s, n - 1)

\* sum(s)
SumSeq(s) == SumTo(s, Len(s))

\* the elements of a set of numbers as an ascending list
Ascending(S) ==
    [k \in 1..Cardinality(S) |-> CHOOSE i \in S : Cardinality({j \in S : j <= i}) = k]

\* the indices i, ascending, for which keep[i] holds (a list comprehension
\* with a condition)
SelectIdx(keep) == Ascending({i \in DOMAIN keep : keep[i]})

\* a place in the sort that puts the later of two entries with the same key
\* first
SortedPlaceLaterFirst(idx, key, p) ==
    1 + Cardinality({q \in 1..Len(idx) :
            \/ key[idx[q]] > key[idx[p]]
            \/ key[idx[q]] = key[idx[p]] /\ q > p})

\* the place the p-th entry of idx takes in sorted(idx, key=..., reverse=True):
\* after every entry with a larger key and after the earlier entries with
\* the same key (the sort is stable)
SortedPlace(idx, key, p) ==
    1 + Cardinality({q \in 1..Len(idx) :
            \/ key[idx[q]] > key[idx[p]]
            \/ key[idx[q]] = key[idx[p]] /\ q < p})

\* sorted(idx, key=..., reverse=True)
SortDesc(idx, key) ==
    [k \in 1..Len(idx) |-> idx[CHOOSE p \in 1..Len(idx) : SortedPlace(idx, key, p) = k]]

\* a rounding that cuts the digits off instead of rounding to nearest
RoundDown(n, d) == n \div d

\* round(n/d) to the nearest integer, ties to even (Python's round)
RoundHalfEven(n, d) ==
    IF 2 * (n % d) < d THEN n \div d
    ELSE IF 2 * (n % d) > d THEN (n \div d) + 1
    ELSE IF (n \div d) % 2 = 0 THEN n \div d ELSE (n \div d) + 1

\* ------------------------------------------------------------------ strings
\* A name is a sequence of characters.
UpperChars == <<"A","B","C","D","E","F","G","H","I","J","K","L","M","N","O","P","Q","R","S","T","U","V","W","X","Y","Z">>
LowerChars == <<"a","b","c","d","e","f","g","h","i","j","k","l","m","n","o","p","q","r","s","t","u","v","w","x","y","z">>

LowerChar(c) ==
    IF \E i \in 1..26 : UpperChars[i] = c
    THEN LowerChars[CHOOSE i \in 1..26 : UpperChars[i] = c]
    ELSE c

\* str.lower()
Lower(s) == [i \in 1..Len(s) |-> LowerChar(s[i])]

\* kw in s
Contains(s, kw) ==
    \E i \in 1..(Len(s) - Len(kw) + 1) : SubSeq(s, i, i + Len(kw) - 1) = kw

\* s.split(ch)[0]
SplitFirst(s, ch) ==
    IF \E i \in 1..Len(s) : s[i] = ch
    THEN SubSeq(s, 1, (CHOOSE i \in 1..Len(s) : s[i] = ch /\ \A j \in 1..(i - 1) : s[j] # ch) - 1)
    ELSE s

TypeCategories == <<
    [type |-> <<"b","o","x">>,
     keywords |-> <<<<"b","o","x">>, <<"c","a","r","t","o","n">>, <<"p","a","c","k","a","g","e">>, <<"c","r","a","t","e">>>>],
    [type |-> <<"p","a","l","l","e","t">>,
     keywords |-> <<<<"p","a","l","l","e","t">>, <<"s","k","i","d">>>>],
    [type |-> <<"d","r","u","m">>,
     keywords |-> <<<<"d","r","u","m">>, <<"b","a","r","r","e","l">>, <<"c","o","n","t","a","i","n","e","r">>>>],
    [type |-> <<"r","a","c","k">>,
     keywords |-> <<<<"r","a","c","k">>, <<"s","h","e","l","f">>, <<"f","r","a","m","e">>>>],
    [type |-> <<"m","a","c","h","i","n","e","r","y">>,
     keywords |-> <<<<"m","a","c","h","i","n","e","r","y">>, <<"e","q","u","i","p","m","e","n","t">>, <<"m","a","c","h","i","n","e">>>>],
    [type |-> <<"h","a","z","m","a","t">>,
     keywords |-> <<<<"h","a","z","m","a","t">>, <<"c","h","e","m","i","c","a","l">>, <<"d","a","n","g","e","r","o","u","s">>>> ] >>

CategoryMatches(name_lower, c) ==
    \E k \in 1..Len(TypeCategories[c].keywords) :
        Contains(name_lower, TypeCategories[c].keywords[k])

\* _get_object_type: the first category one of whose keywords occurs in the
\* lower-cased name, else the name's first word
_get_object_type(item_name) ==
    LET name_lower == Lower(item_name)
    IN  IF \E c \in 1..Len(TypeCategories) : CategoryMatches(name_lower, c)
        THEN TypeCategories[CHOOSE c \in 1..Len(TypeCategories) :
                 /\ CategoryMatches(name_lower, c)
                 /\ \A d \in 1..(c - 1) : ~CategoryMatches(name_lower, d)].type
        ELSE SplitFirst(SplitFirst(name_lower, "_"), " ")

\* ------------------------------------------------------------------ inputs
NameBox == <<"b","o","x">>
NamePallet == <<"P","a","l","l","e","t">>
NameNoType == <<"_","a">>
NameWinterBox == <<"w","i","n","t","e","r","_","b","o","x">>
NameCrate == <<"c","r","a","t","e">>
Names == {NameBox, NamePallet, NameNoType, NameWinterBox, NameCrate}

\* the type tag _get_object_type gives every name of the catalog
TypeOf == [n \in Names |-> _get_object_type(n)]

\* the item specs a request can contain (lengths in tenths of a metre)
Catalog == {
    [name |-> NameBox,       length |-> 20,  width |-> 20, height |-> 20, quantity |-> 1, weight |-> 0],
    [name |-> NameBox,       length |-> 3,   width |-> 3,  height |-> 3,  quantity |-> 2, weight |-> 0],
    [name |-> NamePallet,    length |-> 10,  width |-> 10, height |-> 10, quantity |-> 1, weight |-> 400],
    [name |-> NameNoType,    length |-> 10,  width |-> 10, height |-> 10, quantity |-> 1, weight |-> 0],
    [name |-> NameWinterBox, length |-> 25,  width |-> 12, height |-> 5,  quantity |-> 2, weight |-> 0],
    [name |-> NameCrate,     length |-> 120, width |-> 10, height |-> 10, quantity |-> 1, weight |-> 0] }

ItemLists == UNION {[1..n -> Catalog] : n \in 1..MaxItems}

\* the warehouses an engine is constructed for: 10 x 5 x 3, 2 x 2.5 x 1 and
\* two degenerate ones (all have zone bounds that are whole tenths)
Warehouses == {<<100, 50, 30>>, <<20, 25, 10>>, <<20, 25, 0>>, <<0, 25, 10>>}

KnownAlgorithms == {"bin_packing", "space_filling", "hybrid", "ml_enhanced"}
Algorithms == KnownAlgorithms \cup {"auto", "genetic"}
Months == 1..12

\* a request: ml prediction is switched off only together with 'auto', the
\* one selector that reads the flag
Requests ==
    {r \in [algorithm : Algorithms, use_ml_prediction : BOOLEAN] :
        r.algorithm # "auto" => r.use_ml_prediction}

\* ------------------------------------------------------------------ state
VARIABLES
    warehouse_length, warehouse_width, warehouse_height,
    occupancy_grid,          \* the set of occupied voxels <<i, j, k>>
    placed_items_tracker,    \* sequence of [type, bounds]
    pc,                      \* "idle", "placing", "done", "raised"; "expanded"
                             \* after the unit expansion taken alone
    raised,                  \* the exception a call ended with, or "none"
    items,                   \* the item list of the current call
    algorithm,               \* the strategy selector after 'auto' resolution
    processed_items,         \* the expanded units (mutable dicts)
    pending,                 \* units still to attempt: <<index, pass>>
    result,                  \* the strategy's list of placed units (indices)
    metrics,                 \* the metrics of the returned result, or None
    last_outcome,            \* how the previous call on the engine ended
    placed_items,            \* the placed items handed to a picking request
    pick_list,               \* the pick list of the picking request
    picking_result,          \* what the picking request returned, or None
    workflow_report          \* what the workflow analysis returned, or None

vars == <<warehouse_length, warehouse_width, warehouse_height, occupancy_grid,
          placed_items_tracker, pc, raised, items, algorithm, processed_items,
          pending, result, metrics, last_outcome, placed_items, pick_list,
          picking_result, workflow_report>>

\* the state of a picking request
pickvars == <<placed_items, pick_list, picking_result, workflow_report>>

warehouse_volume == warehouse_length * warehouse_width * warehouse_height
grid_length == warehouse_length \div grid_resolution
grid_width == warehouse_width \div grid_resolution
grid_height == warehouse_height \div grid_resolution

\* ------------------------------------------------- forecasting collaborator
_get_winter_factor(current_month) ==
    IF current_month \in {12, 1, 2} THEN 15
    ELSE IF current_month \in {3, 4, 10, 11} THEN 12
    ELSE 7

_get_summer_factor(current_month) ==
    IF current_month \in {6, 7, 8} THEN 15
    ELSE IF current_month \in {5, 9} THEN 12
    ELSE 7

NameSeasonal == <<"s","e","a","s","o","n","a","l">>
NameWinter == <<"w","i","n","t","e","r">>
NameSummer == <<"s","u","m","m","e","r">>

\* the seasonal factor (in tenths) predict_seasonal_demand gives a name in
\* the month the clock reads
SeasonalFactorOf(item_name, current_month) ==
    IF Contains(Lower(item_name), NameSeasonal) \/ Contains(Lower(item_name), NameWinter)
    THEN _get_winter_factor(current_month)
    ELSE IF Contains(Lower(item_name), NameSummer)
    THEN _get_summer_factor(current_month)
    ELSE 10

\* the seasonal factor of every name of the catalog in every month
SeasonalFactors == [n \in Names |-> [m \in Months |-> SeasonalFactorOf(n, m)]]

\* predict_seasonal_demand: name -> factor, for the names of the list
predict_seasonal_demand(its, current_month) ==
    [n \in {its[i].name : i \in 1..Len(its)} |-> SeasonalFactors[n][current_month]]

\* the turnover record of one item spec; turnover in ten-thousandths:
\* max(0.1, 1.0 - volume/10 - weight/1000)
TurnoverOf(item) ==
    LET item_volume == item.length * item.width * item.height
        predicted_turnover == Max(1000, 10000 - item_volume - 10 * item.weight)
    IN  [predicted_turnover |-> predicted_turnover,
         optimal_zone |-> IF predicted_turnover > 7000 THEN "high_access"
                          ELSE IF predicted_turnover > 4000 THEN "medium_access"
                          ELSE "low_access",
         access_priority |-> predicted_turnover]

\* calculate_turnover_predictions: a dict keyed by name, so the last spec of
\* a name decides the name's record
calculate_turnover_predictions(its) ==
    [n \in {its[i].name : i \in 1..Len(its)} |->
        TurnoverOf(its[CHOOSE i \in 1..Len(its) :
                          /\ its[i].name = n
                          /\ \A j \in (i + 1)..Len(its) : its[j].name # n])]

\* predict_optimal_algorithm: no historical data, so the fallback rules; a
\* zero warehouse volume raises inside the try block and gives the default
predict_optimal_algorithm(its) ==
    LET total_item_volume ==
            SumSeq([i \in 1..Len(its) |->
                its[i].length * its[i].width * its[i].height * its[i].quantity])
        item_count == SumSeq([i \in 1..Len(its) |-> its[i].quantity])
        item_variety == Cardinality({its[i].name : i \in 1..Len(its)})
    IN  IF warehouse_volume = 0 THEN "bin_packing"
        ELSE IF 10 * total_item_volume > 8 * warehouse_volume THEN "hybrid"
        ELSE IF /\ item_variety > 10
                /\ (IF item_count > 0
                    THEN 100 * total_item_volume < warehouse_volume * item_count
                    ELSE 0 < warehouse_volume)
             THEN "space_filling"
        ELSE "bin_packing"

\* ------------------------------------------------------------ unit expansion
\* _apply_seasonal_adjustments: quantity scaled by the factor, at least 1
_apply_seasonal_adjustments(its, seasonal_predictions) ==
    [i \in 1..Len(its) |->
        LET seasonal_factor == seasonal_predictions[its[i].name]
        IN  [name |-> its[i].name, length |-> its[i].length, width |-> its[i].width,
             height |-> its[i].height, weight |-> its[i].weight,
             quantity |-> Max(1, (its[i].quantity * seasonal_factor) \div 10),
             seasonal_factor |-> seasonal_factor]]

\* the units of one adjusted item spec
UnitsOf(item, turnover_predictions) ==
    [i \in 1..item.quantity |->
        [id |-> <<item.name, i>>,
         name |-> item.name,
         length |-> item.length,
         width |-> item.width,
         height |-> item.height,
         volume |-> item.length * item.width * item.height,
         weight |-> item.weight,
         placed |-> FALSE,
         position |-> None,
         rotation |-> 0,
         seasonal_factor |-> item.seasonal_factor,
         turnover_prediction |-> turnover_predictions[item.name]]]

RECURSIVE UnitsFrom(_, _, _)
\* the units of the item specs n, n + 1, ... of the list
UnitsFrom(adjusted_items, turnover_predictions, n) ==
    IF n > Len(adjusted_items) THEN <<>>
    ELSE UnitsOf(adjusted_items[n], turnover_predictions)
            \o UnitsFrom(adjusted_items, turnover_predictions, n + 1)

\* one unit per quantity index of every item spec, in list order
_prepare_items_with_ml(adjusted_items, turnover_predictions) ==
    UnitsFrom(adjusted_items, turnover_predictions, 1)

\* the units optimize builds from the item list under a seasonal prediction
ProcessedItems(its, seasonal_predictions) ==
    _prepare_items_with_ml(_apply_seasonal_adjustments(its, seasonal_predictions),
                           calculate_turnover_predictions(its))

\* the seasonal predictions the months of the year can give for a list
SeasonalPredictions(its) == {predict_seasonal_demand(its, m) : m \in Months}

\* ------------------------------------------------------------ occupancy grid
\* the index range a[start:end] of a slice of an axis of n voxels
SliceRange(start, end, n) == Max(start, 0) .. (Min(end, n) - 1)

\* the voxels of occupancy_grid[x_start:x_end, y_start:y_end, z_start:z_end]
\* for the box of the given extents at (x, y, z); the end indices are clamped
\* to the grid
BoxVoxels(length, width, height, x, y, z) ==
    LET x_start == x \div grid_resolution
        y_start == y \div grid_resolution
        z_start == z \div grid_resolution
        x_end == Min((x + length) \div grid_resolution, grid_length)
        y_end == Min((y + width) \div grid_resolution, grid_width)
        z_end == Min((z + height) \div grid_resolution, grid_height)
    IN  SliceRange(x_start, x_end, grid_length)
            \X SliceRange(y_start, y_end, grid_width)
            \X SliceRange(z_start, z_end, grid_height)

\* the shortest distance, squared, between two boxes <<lo, hi>> given as
\* (x_min, y_min, z_min, x_max, y_max, z_max)
BoxDistanceSquared(a, b) ==
    LET dx == Max(0, Max(a[1] - b[4], b[1] - a[4]))
        dy == Max(0, Max(a[2] - b[5], b[2] - a[5]))
        dz == Max(0, Max(a[3] - b[6], b[3] - a[6]))
    IN  dx * dx + dy * dy + dz * dz

\* _check_type_distance_constraint against the tracker tr
_check_type_distance_constraint(tr, item_type, item_bounds) ==
    \A i \in 1..Len(tr) :
        \/ item_type = tr[i].type
        \/ ~(BoxDistanceSquared(item_bounds, tr[i].bounds)
                < type_distance_constraint * type_distance_constraint)

\* _can_place_item_at_position on the grid g and the tracker tr
_can_place_item_at_position(g, tr, length, width, height, x, y, z, item_type) ==
    LET x_end == Min((x + length) \div grid_resolution, grid_length)
        y_end == Min((y + width) \div grid_resolution, grid_width)
        z_end == Min((z + height) \div grid_resolution, grid_height)
    IN  IF x_end > grid_length \/ y_end > grid_width \/ z_end > grid_height
        THEN FALSE
        ELSE IF BoxVoxels(length, width, height, x, y, z) \cap g # {}
        THEN FALSE
        ELSE IF item_type # <<>> /\ tr # <<>>
        THEN _check_type_distance_constraint(tr, item_type,
                 <<x, y, z, x + length, y + width, z + height>>)
        ELSE TRUE

\* _can_place_item: the unit with its current dimensions at pos
_can_place_item(g, tr, item, pos) ==
    _can_place_item_at_position(g, tr, item.length, item.width, item.height,
                                pos[1], pos[2], pos[3], TypeOf[item.name])

\* _mark_space_occupied, the grid part
MarkGrid(g, item, pos) ==
    g \cup BoxVoxels(item.length, item.width, item.height, pos[1], pos[2], pos[3])

\* _mark_space_occupied, the tracker part
MarkTracker(tr, item, pos) ==
    Append(tr, [type |-> TypeOf[item.name],
                bounds |-> <<pos[1], pos[2], pos[3], pos[1] + item.length,
                             pos[2] + item.width, pos[3] + item.height>>])

\* ------------------------------------------------------------------ scanning
\* len(np.arange(start, stop, step))
ArangeLen(start, stop, step) ==
    IF stop <= start THEN 0 ELSE (stop - start + step - 1) \div step

\* The first origin, in the nested order x outer, y middle, z inner, at which
\* a box of extents dims can be placed: x from x_start below x_stop, y from
\* y_start below y_stop, z from 0 below z_stop, in steps of the grid
\* resolution.  None when there is none.  Candidate c of the nested loops is
\* the origin Origin(c); the loops return at the first candidate that can be
\* placed and fall through after the last.
ScanOrigins(g, tr, dims, item_type, x_start, x_stop, y_start, y_stop, z_stop) ==
    LET nx == ArangeLen(x_start, x_stop, grid_resolution)
        ny == ArangeLen(y_start, y_stop, grid_resolution)
        nz == ArangeLen(0, z_stop, grid_resolution)
        n == nx * ny * nz
        Origin(c) == <<x_start + (c \div (ny * nz)) * grid_resolution,
                       y_start + ((c \div nz) % ny) * grid_resolution,
                       (c % nz) * grid_resolution>>
        Feasible(c) ==
            _can_place_item_at_position(g, tr, dims[1], dims[2], dims[3],
                Origin(c)[1], Origin(c)[2], Origin(c)[3], item_type)
    IN  TheOne({IF c = n THEN None ELSE Origin(c) :
                c \in {CHOOSE c \in 0..n :
                          /\ c < n => Feasible(c)
                          /\ \A c2 \in 0..(c - 1) : ~Feasible(c2)}})

\* The two orientations tried for a unit: original, then length and width
\* swapped.
Rotations(item) ==
    << <<item.length, item.width, item.height>>,
       <<item.width, item.length, item.height>> >>

FitsWarehouse(dims) ==
    ~(dims[1] > warehouse_length \/ dims[2] > warehouse_width \/ dims[3] > warehouse_height)

\* a re-orientation that sets the rotation flag and leaves the extents
OrientedFlagOnly(item, dims) ==
    IF dims # <<item.length, item.width, item.height>>
    THEN [item EXCEPT !.rotation = 90]
    ELSE item

\* the unit after a successful search with orientation dims: rotation and
\* the swapped extents are written only when dims differs from the original
Oriented(item, dims) ==
    IF dims # <<item.length, item.width, item.height>>
    THEN [item EXCEPT !.rotation = 90, !.length = dims[1], !.width = dims[2]]
    ELSE item

\* a scan that skips the first column of origins
ScanWarehouseOffset(g, tr, dims, item_type) ==
    IF ~FitsWarehouse(dims) THEN None
    ELSE ScanOrigins(g, tr, dims, item_type,
             grid_resolution, warehouse_length - dims[1] + ScanSlack,
             0, warehouse_width - dims[2] + ScanSlack,
             warehouse_height - dims[3] + ScanSlack)

\* the scan of _find_best_position for one orientation
ScanWarehouse(g, tr, dims, item_type) ==
    IF ~FitsWarehouse(dims) THEN None
    ELSE ScanOrigins(g, tr, dims, item_type,
             0, warehouse_length - dims[1] + ScanSlack,
             0, warehouse_width - dims[2] + ScanSlack,
             warehouse_height - dims[3] + ScanSlack)

\* the result of a search: the position, and the unit updated for the
\* orientation that was found
Found(pos, item, dims) == [position |-> pos, item |-> Oriented(item, dims)]
NotFound(item) == [position |-> None, item |-> item]

\* _find_best_position: position None when neither orientation has an origin
_find_best_position(g, tr, item) ==
    TheOne({
        IF first # None THEN Found(first, item, Rotations(item)[1])
        ELSE TheOne({
            IF second # None THEN Found(second, item, Rotations(item)[2])
            ELSE NotFound(item) :
            second \in {ScanWarehouse(g, tr, Rotations(item)[2], TypeOf[item.name])}}) :
        first \in {ScanWarehouse(g, tr, Rotations(item)[1], TypeOf[item.name])}})

\* the search bounds <<x_lo, x_hi, y_lo, y_hi>> of an access zone, with
\* high_access_zone = (0.3 L, 0.4 W) and medium_access_zone = (0.6 L, 0.8 W)
ZoneBounds(optimal_zone) ==
    LET high_x == (3 * warehouse_length) \div 10
        high_y == (4 * warehouse_width) \div 10
        medium_x == (6 * warehouse_length) \div 10
        medium_y == (8 * warehouse_width) \div 10
    IN  IF optimal_zone = "high_access" THEN <<0, high_x, 0, high_y>>
        ELSE IF optimal_zone = "medium_access" THEN <<0, medium_x, high_y, medium_y>>
        ELSE <<medium_x, warehouse_length, 0, warehouse_width>>

\* a zone scan that ignores the zone and scans the whole warehouse
ScanZoneUnrestricted(g, tr, dims, item_type, b) == ScanWarehouse(g, tr, dims, item_type)

\* the scan of _find_position_in_zone for one orientation
ScanZone(g, tr, dims, item_type, b) ==
    IF ~FitsWarehouse(dims) THEN None
    ELSE ScanOrigins(g, tr, dims, item_type,
             b[1], Min(b[2], warehouse_length - dims[1] + ScanSlack),
             b[3], Min(b[4], warehouse_width - dims[2] + ScanSlack),
             warehouse_height - dims[3] + ScanSlack)

\* _find_position_in_zone: the scan restricted to the zone's floor rectangle,
\* then the unrestricted scan of _find_best_position
_find_position_in_zone(g, tr, item, optimal_zone) ==
    TheOne({
        IF first # None THEN Found(first, item, Rotations(item)[1])
        ELSE TheOne({
            IF second # None THEN Found(second, item, Rotations(item)[2])
            ELSE _find_best_position(g, tr, item) :
            second \in {ScanZone(g, tr, Rotations(item)[2], TypeOf[item.name],
                                 ZoneBounds(optimal_zone))}}) :
        first \in {ScanZone(g, tr, Rotations(item)[1], TypeOf[item.name],
                            ZoneBounds(optimal_zone))}})

\* bit k of i
Bit(i, k) == (i \div (2 ^ k)) % 2

\* (i & 0x55555555) << 1 | (i & 0xAAAAAAAA) >> 1, for i below 2^10
SwapBits1(i) ==
    SumSeq([k \in 1..10 |->
        IF (k - 1) % 2 = 0 THEN Bit(i, k - 1) * 2 ^ k ELSE Bit(i, k - 1) * 2 ^ (k - 2)])

\* (i & 0x33333333) << 2 | (i & 0xCCCCCCCC) >> 2, for i below 2^10
SwapBits2(i) ==
    SumSeq([k \in 1..10 |->
        IF (k - 1) % 4 < 2 THEN Bit(i, k - 1) * 2 ^ (k + 1) ELSE Bit(i, k - 1) * 2 ^ (k - 3)])

\* a candidate list that starts one grid step above the ground
ZOrderPositionsAboveGround(w) == <<<<0, 0, grid_resolution>>>>

\* _generate_z_order_positions for a warehouse w = <<length, width, height>>:
\* the ground-level candidates, in order
ZOrderPositions(w) ==
    LET gl == w[1] \div grid_resolution
        gw == w[2] \div grid_resolution
        n == Min(ZOrderLimit, gl * gw)
        coord(i) == <<(SwapBits1(i) % gl) * grid_resolution,
                      (SwapBits2(i) % gw) * grid_resolution,
                      0>>
        kept == {i \in 0..(n - 1) :
                    coord(i)[1] < w[1] /\ coord(i)[2] < w[2] /\ coord(i)[3] < w[3]}
    IN  [k \in 1..Cardinality(kept) |->
            coord(CHOOSE i \in kept : Cardinality({i2 \in kept : i2 <= i}) = k)]

\* the candidate list of every warehouse
ZOrderTable == [w \in Warehouses |-> ZOrderPositions(w)]

_generate_z_order_positions ==
    ZOrderTable[<<warehouse_length, warehouse_width, warehouse_height>>]

\* the first of the candidate positions at which the unit can be placed,
\* None when there is none
FirstPosition(g, tr, item, positions) ==
    TheOne({IF k > Len(positions) THEN None ELSE positions[k] :
            k \in {CHOOSE k \in 1..(Len(positions) + 1) :
                      /\ k <= Len(positions) => _can_place_item(g, tr, item, positions[k])
                      /\ \A k2 \in 1..(k - 1) : ~_can_place_item(g, tr, item, positions[k2])}})

\* ---------------------------------------------------------------- strategies
\* The state a strategy works on: the grid, the tracker, the units and the
\* list of placed units.
RunState(g, tr, units, placed) ==
    [grid |-> g, tracker |-> tr, units |-> units, placed |-> placed]

\* a placement that forgets to set the unit's placed flag
PlacedFlagUnset(st, i, item, pos) ==
    RunState(MarkGrid(st.grid, item, pos),
             MarkTracker(st.tracker, item, pos),
             [st.units EXCEPT ![i] = [item EXCEPT !.position = pos]],
             Append(st.placed, i))

\* the unit i placed at pos with the (possibly re-oriented) record item:
\* position and flag written, grid marked, tracker extended, list extended
Placed(st, i, item, pos) ==
    RunState(MarkGrid(st.grid, item, pos),
             MarkTracker(st.tracker, item, pos),
             [st.units EXCEPT ![i] = [item EXCEPT !.position = pos, !.placed = TRUE]],
             Append(st.placed, i))

\* the state after a search that ended with found
AfterSearch(st, i, found) ==
    IF found.position # None THEN Placed(st, i, found.item, found.position) ELSE st

\* one iteration of the loop of _bin_packing_optimization
BinPackingAttempt(st, i) ==
    TheOne({AfterSearch(st, i, found) :
            found \in {_find_best_position(st.grid, st.tracker, st.units[i])}})

\* one iteration of the outer loop of _space_filling_optimization
SpaceFillingAttempt(st, i) ==
    TheOne({IF pos # None THEN Placed(st, i, st.units[i], pos) ELSE st :
            pos \in {FirstPosition(st.grid, st.tracker, st.units[i],
                                   _generate_z_order_positions)}})

\* one iteration of the loop of _ml_enhanced_optimization
ZoneHintedAttempt(st, i) ==
    TheOne({AfterSearch(st, i, found) :
            found \in {_find_position_in_zone(st.grid, st.tracker, st.units[i],
                            st.units[i].turnover_prediction.optimal_zone)}})

Attempt(st, i, pass) ==
    IF pass = "bin_packing" THEN BinPackingAttempt(st, i)
    ELSE IF pass = "space_filling" THEN SpaceFillingAttempt(st, i)
    ELSE ZoneHintedAttempt(st, i)

Indices(units) == [i \in 1..Len(units) |-> i]
Tagged(idx, pass) == [k \in 1..Len(idx) |-> <<idx[k], pass>>]
VolumeKey(units) == [i \in 1..Len(units) |-> units[i].volume]
PriorityKey(units) == [i \in 1..Len(units) |-> units[i].turnover_prediction.access_priority]

\* a split that counts a unit of exactly 1 % of the warehouse volume as large
IsLargeOrEqual(unit) == 100 * unit.volume >= warehouse_volume

\* a unit is large when its volume exceeds 1 % of the warehouse volume
IsLarge(unit) == 100 * unit.volume > warehouse_volume

\* The order in which a strategy attempts the units, each with the pass that
\* attempts it.
AttemptOrder(alg, units) ==
    LET n == Len(units)
    IN  IF alg = "bin_packing"
        THEN Tagged(SortDesc(Indices(units), VolumeKey(units)), "bin_packing")
        ELSE IF alg = "space_filling"
        THEN Tagged(SortDesc(Indices(units), VolumeKey(units)), "space_filling")
        ELSE IF alg = "hybrid"
        THEN LET large == SelectIdx([i \in 1..n |-> IsLarge(units[i])])
                 small == SelectIdx([i \in 1..n |-> ~IsLarge(units[i])])
             IN  Tagged(SortDesc(large, VolumeKey(units)), "bin_packing")
                    \o Tagged(SortDesc(small, VolumeKey(units)), "space_filling")
        ELSE Tagged(SortDesc(Indices(units), PriorityKey(units)), "zone_hinted")

RECURSIVE RunAttemptsFrom(_, _, _)
\* the strategy run to its end from st over the attempts n, n + 1, ... of todo
RunAttemptsFrom(st, todo, n) ==
    IF n > Len(todo) THEN st
    ELSE TheOne({RunAttemptsFrom(next, todo, n + 1) :
                 next \in {Attempt(st, todo[n][1], todo[n][2])}})

\* the strategy run to its end from st over the attempts todo
RunAttempts(st, todo) == RunAttemptsFrom(st, todo, 1)

\* ------------------------------------------------------------------ results
\* _calculate_metrics (percentages and volumes rounded to two decimals)
PlacedVolume(units, placed) ==
    SumSeq([k \in 1..Len(placed) |-> units[placed[k]].volume])

_calculate_metrics(units, placed) ==
    IF units = <<>>
    THEN [utilization |-> 0, efficiency |-> 0, items_placed |-> 0, items_total |-> 0]
    ELSE [utilization |-> RoundHalfEven(10000 * PlacedVolume(units, placed), warehouse_volume),
          efficiency |-> RoundHalfEven(10000 * Len(placed), Len(units)),
          items_placed |-> Len(placed),
          items_total |-> Len(units),
          volume_used |-> RoundHalfEven(PlacedVolume(units, placed), 10),
          volume_total |-> RoundHalfEven(warehouse_volume, 10)]

\* _calculate_picking_density and optimize_zone_layout divide by the floor
\* area and by every zone's area
FloorAreaIsZero == warehouse_length * warehouse_width = 0

\* _calculate_metrics divides by the warehouse volume
MetricsDivideByZero(units) == units # <<>> /\ warehouse_volume = 0

\* the 'placed_items' list of the response
PlacedItems(units, placed) ==
    [k \in 1..Len(placed) |->
        [id |-> units[placed[k]].id,
         name |-> units[placed[k]].name,
         position |-> units[placed[k]].position,
         dimensions |-> <<units[placed[k]].length, units[placed[k]].width,
                          units[placed[k]].height>>,
         rotation |-> units[placed[k]].rotation,
         volume |-> units[placed[k]].volume]]

\* the 'unplaced_items' list of the response
UnplacedItems(units) ==
    LET idx == SelectIdx([i \in 1..Len(units) |-> ~units[i].placed])
    IN  [k \in 1..Len(idx) |->
            [id |-> units[idx[k]].id,
             name |-> units[idx[k]].name,
             dimensions |-> <<units[idx[k]].length, units[idx[k]].width,
                              units[idx[k]].height>>,
             volume |-> units[idx[k]].volume]]

\* ---------------------------------------------------------- picking planner
\* The planner (src/picking_optimizer.py) reads the name and the position of
\* every item it is given.  Its distances are square roots: a distance is
\* kept here as its square (tenths of a metre, squared) and a sum of
\* distances as the list of the squares of its terms, so that "is zero" and
\* "is the sum of" stay exact.

\* the zone names in the order of the zone table
ZoneNames == <<"high_velocity", "medium_velocity", "low_velocity", "bulk_storage">>

\* the zone table; every bound is kept times ten (length * 0.3 is
\* 3 * warehouse_length)
_define_warehouse_zones ==
    [high_velocity |->
        [bounds |-> [x_min |-> 0, x_max |-> 3 * warehouse_length,
                     y_min |-> 0, y_max |-> 4 * warehouse_width],
         priority |-> 1],
     medium_velocity |->
        [bounds |-> [x_min |-> 0, x_max |-> 6 * warehouse_length,
                     y_min |-> 4 * warehouse_width, y_max |-> 8 * warehouse_width],
         priority |-> 2],
     low_velocity |->
        [bounds |-> [x_min |-> 6 * warehouse_length, x_max |-> 10 * warehouse_length,
                     y_min |-> 0, y_max |-> 10 * warehouse_width],
         priority |-> 3],
     bulk_storage |->
        [bounds |-> [x_min |-> 3 * warehouse_length, x_max |-> 6 * warehouse_length,
                     y_min |-> 0, y_max |-> 4 * warehouse_width],
         priority |-> 4]]

\* a containment test with exclusive upper bounds
InBoundsHalfOpen(pos, bounds) ==
    /\ bounds.x_min <= 10 * pos[1] /\ 10 * pos[1] < bounds.x_max
    /\ bounds.y_min <= 10 * pos[2] /\ 10 * pos[2] < bounds.y_max

\* bounds.x_min <= x <= bounds.x_max and bounds.y_min <= y <= bounds.y_max
InBounds(pos, bounds) ==
    /\ bounds.x_min <= 10 * pos[1] /\ 10 * pos[1] <= bounds.x_max
    /\ bounds.y_min <= 10 * pos[2] /\ 10 * pos[2] <= bounds.y_max

\* the first zone of the table that contains the item's planar position
_get_item_zone(item) ==
    LET inside(k) == InBounds(item.position, _define_warehouse_zones[ZoneNames[k]].bounds)
    IN  IF \E k \in 1..Len(ZoneNames) : inside(k)
        THEN ZoneNames[CHOOSE k \in 1..Len(ZoneNames) :
                            inside(k) /\ \A j \in 1..(k - 1) : ~inside(j)]
        ELSE "unassigned"

\* the priority of a zone, 99 for a name that is not in the table
ZonePriority(zone) ==
    IF zone \in DOMAIN _define_warehouse_zones
    THEN _define_warehouse_zones[zone].priority
    ELSE 99

\* the zone of every item of a list
ZonesOf(its) == [i \in 1..Len(its) |-> _get_item_zone(its[i])]

\* a grouping that keeps the zone of the first item only
ZoneGroupKeysFirstOnly(zone_of) == <<zone_of[1]>>

\* the keys of zone_groups in insertion order: every zone once, in the order
\* of its first item
ZoneGroupKeys(zone_of) ==
    LET first == SelectIdx([i \in 1..Len(zone_of) |->
                                \A j \in 1..(i - 1) : zone_of[j] # zone_of[i]])
    IN  [k \in 1..Len(first) |-> zone_of[first[k]]]

\* a zone sequence left in the order of the groups
ZoneSequenceUnsorted(zones) == zones

\* sorted(zones, key=priority)
_optimize_zone_sequence(zones) ==
    IF Len(zones) <= 1 THEN zones
    ELSE LET order == SortDesc(Indices(zones),
                               [i \in 1..Len(zones) |-> 0 - ZonePriority(zones[i])])
         IN  [k \in 1..Len(zones) |-> zones[order[k]]]

\* the square of _calculate_distance(pos1, pos2): x and y only
_calculate_distance(pos1, pos2) ==
    (pos1[1] - pos2[1]) * (pos1[1] - pos2[1]) + (pos1[2] - pos2[2]) * (pos1[2] - pos2[2])

\* a choice that takes the unvisited items in arrival order
NearestInArrivalOrder(its, current, unvisited) == 1

\* the place in unvisited of min(unvisited, key=distance to current): the
\* first of the nearest
NearestIn(its, current, unvisited) ==
    LET d(k) == _calculate_distance(its[current].position, its[unvisited[k]].position)
    IN  CHOOSE k \in 1..Len(unvisited) :
            /\ \A j \in 1..(k - 1) : d(j) > d(k)
            /\ \A j \in k..Len(unvisited) : d(j) >= d(k)

\* s without its k-th entry
RemoveAt(s, k) == [j \in 1..(Len(s) - 1) |-> IF j < k THEN s[j] ELSE s[j + 1]]

RECURSIVE NearestNeighborFrom(_, _, _)
\* the while loop of _nearest_neighbor_path
NearestNeighborFrom(its, path, unvisited) ==
    IF unvisited = <<>> THEN path
    ELSE TheOne({TheOne({NearestNeighborFrom(its, p, u) :
                            p \in {Append(path, unvisited[k])},
                            u \in {RemoveAt(unvisited, k)}}) :
                 k \in {NearestIn(its, path[Len(path)], unvisited)}})

\* the visit order of a group of items (indices into its)
_nearest_neighbor_path(its, group) ==
    IF Len(group) <= 1 THEN group
    ELSE NearestNeighborFrom(its, <<group[1]>>, Tail(group))

\* the items of one zone in the order they are visited
ZonePath(its, zone_of, zone) ==
    TheOne({IF Len(group) = 1 THEN group ELSE _nearest_neighbor_path(its, group) :
            group \in {SelectIdx([i \in 1..Len(its) |-> zone_of[i] = zone])}})

RECURSIVE ConcatTo(_, _)
\* paths[1] \o ... \o paths[n]
ConcatTo(paths, n) == IF n = 0 THEN <<>> ELSE ConcatTo(paths, n - 1) \o paths[n]

\* the items in the order the path visits them: zone after zone
VisitOrder(its, zone_of, zone_sequence) ==
    TheOne({ConcatTo(paths, Len(paths)) :
            paths \in {[k \in 1..Len(zone_sequence) |->
                            ZonePath(its, zone_of, zone_sequence[k])]}})

\* waypoints, zone sequence and the distance-annotated segments, which are
\* added inside a zone group of two or more items only
PathData(its, zone_of, zone_sequence, visit) ==
    LET inside == SelectIdx([k \in 1..(Len(visit) - 1) |->
                                zone_of[visit[k]] = zone_of[visit[k + 1]]])
    IN  [waypoints |-> [k \in 1..Len(visit) |-> its[visit[k]].position],
         zone_sequence |-> zone_sequence,
         path_segments |->
            [s \in 1..Len(inside) |->
                [from |-> its[visit[inside[s]]].position,
                 to |-> its[visit[inside[s] + 1]].position,
                 distance |-> _calculate_distance(its[visit[inside[s]]].position,
                                                  its[visit[inside[s] + 1]].position)]]]

_calculate_optimal_path(items_to_pick) ==
    IF Len(items_to_pick) <= 1
    THEN [waypoints |-> [k \in 1..Len(items_to_pick) |-> items_to_pick[k].position],
          zone_sequence |-> [k \in 1..Len(items_to_pick) |-> _get_item_zone(items_to_pick[k])],
          path_segments |-> <<>>]
    ELSE TheOne({PathData(items_to_pick, zone_of, zone_sequence,
                          VisitOrder(items_to_pick, zone_of, zone_sequence)) :
                 zone_of \in {ZonesOf(items_to_pick)},
                 zone_sequence \in {_optimize_zone_sequence(ZoneGroupKeys(ZonesOf(items_to_pick)))}})

\* the terms of the total distance: the squares of the hops between
\* consecutive waypoints (none below two waypoints: 0.0)
_calculate_total_distance(waypoints) ==
    [k \in 1..(Len(waypoints) - 1) |-> _calculate_distance(waypoints[k], waypoints[k + 1])]

\* a sum of distances is 0.0
IsZeroDistance(terms) == \A k \in 1..Len(terms) : terms[k] = 0

\* the three components of the picking time: the walk, the items picked and
\* the zone transitions
_calculate_picking_time(path_data, item_count) ==
    [walking |-> _calculate_total_distance(path_data.waypoints),
     item_count |-> item_count,
     zone_transitions |-> Len(path_data.zone_sequence) - 1]

\* the pairs <<coordinate, n>> for which sum of n copies of the coordinate,
\* divided by n, is not the coordinate again in binary floating point.  The
\* coordinates are those the scans produce that are not multiples of 0.5:
\* 0.8, 1.3, 1.8 (width 2.0 times 0.4, plus steps of 0.5) and 1.2, 1.7
\* (length 2.0 times 0.6, plus a step).
InexactMeans ==
    {<<8, 3>>} \cup ({8} \X (6..12)) \cup ({13, 12} \X (10..12)) \cup ({18, 17} \X (7..12))

\* sum([c] * n) / n == c
FloatMeanIsExact(c, n) == c % 5 = 0 \/ <<c, n>> \notin InexactMeans

\* every position has distance 0.0 to the computed centre: all positions
\* have the same x and y, and the centre computed from them is that point
CentroidOnEveryPosition(positions) ==
    /\ \A i, j \in 1..Len(positions) :
            positions[i][1] = positions[j][1] /\ positions[i][2] = positions[j][2]
    /\ FloatMeanIsExact(positions[1][1], Len(positions))
    /\ FloatMeanIsExact(positions[1][2], Len(positions))

\* _minimum_spanning_tree_distance(positions) == 0
MinDistanceIsZero(positions) == CentroidOnEveryPosition(positions)

Positions(its) == [k \in 1..Len(its) |-> its[k].position]

\* _calculate_path_efficiency divides by an actual distance of 0.0
PathEfficiencyDividesByZero(path_data, its) ==
    /\ Len(its) >= 2
    /\ ~MinDistanceIsZero(Positions(its))
    /\ IsZeroDistance(_calculate_total_distance(path_data.waypoints))

\* the path efficiency in hundredths of a percent: 0.0 without items, 100.0
\* for one position or a minimum distance of 0.0, else the quotient of the
\* minimum and the actual distance limited to 0.0 .. 100.0 (kept as the two
\* distances)
_calculate_path_efficiency(path_data, its) ==
    IF its = <<>> THEN [percent |-> 0, limited |-> FALSE]
    ELSE IF Len(its) < 2 THEN [percent |-> 10000, limited |-> FALSE]
    ELSE IF MinDistanceIsZero(Positions(its)) THEN [percent |-> 10000, limited |-> FALSE]
    ELSE [limited |-> TRUE,
          min_distance |-> Positions(its),
          actual_distance |-> _calculate_total_distance(path_data.waypoints)]

\* the items grouped by zone, the zones in the order of their first item
_organize_by_zones(its) ==
    LET zone_of == ZonesOf(its)
        keys == ZoneGroupKeys(zone_of)
        members(zone) == SelectIdx([i \in 1..Len(its) |-> zone_of[i] = zone])
    IN  [k \in 1..Len(keys) |->
            [zone_name |-> keys[k],
             items |-> [m \in 1..Len(members(keys[k])) |->
                            [name |-> its[members(keys[k])[m]].name,
                             position |-> its[members(keys[k])[m]].position]],
             item_count |-> Len(members(keys[k])),
             priority |-> ZonePriority(keys[k])]]

_empty_path_result ==
    [path_data |-> [waypoints |-> <<>>, zone_sequence |-> <<>>, path_segments |-> <<>>],
     total_distance |-> <<>>,
     estimated_time |-> [walking |-> <<>>, item_count |-> 0, zone_transitions |-> 0],
     path_efficiency |-> [percent |-> 0, limited |-> FALSE],
     picking_zones |-> <<>>,
     zone_sequence |-> <<>>,
     items_to_pick |-> 0,
     waypoints |-> <<>>]

\* a filter that ignores the pick list
ItemsToPickIgnoresList(placed, picks) == placed

\* the items the planner picks: all without a pick list, else those whose
\* name is in the list
ItemsToPick(placed, picks) ==
    LET idx == SelectIdx([i \in 1..Len(placed) |->
                            picks = <<>> \/ \E k \in 1..Len(picks) : picks[k] = placed[i].name])
    IN  [k \in 1..Len(idx) |-> placed[idx[k]]]

\* optimize_picking_path raises ZeroDivisionError
PickingDividesByZero(placed, picks) ==
    \E items_to_pick \in {ItemsToPick(placed, picks)} :
        /\ items_to_pick # <<>>
        /\ \E optimal_path \in {_calculate_optimal_path(items_to_pick)} :
                PathEfficiencyDividesByZero(optimal_path, items_to_pick)

\* the value optimize_picking_path returns
optimize_picking_path(placed, picks) ==
    TheOne({IF items_to_pick = <<>> THEN _empty_path_result
            ELSE TheOne({[path_data |-> optimal_path,
                          total_distance |-> _calculate_total_distance(optimal_path.waypoints),
                          estimated_time |-> _calculate_picking_time(optimal_path, Len(items_to_pick)),
                          path_efficiency |-> _calculate_path_efficiency(optimal_path, items_to_pick),
                          picking_zones |-> _organize_by_zones(items_to_pick),
                          zone_sequence |-> optimal_path.zone_sequence,
                          items_to_pick |-> Len(items_to_pick),
                          waypoints |-> optimal_path.waypoints] :
                         optimal_path \in {_calculate_optimal_path(items_to_pick)}}) :
            items_to_pick \in {ItemsToPick(placed, picks)}})

\* ---------------------------------------------------------- workflow report
\* Scores are kept in hundredths, densities in ten-thousandths per square
\* metre, zone areas in units of a square centimetre (the bounds are kept
\* times ten). The statistics density_variance of the density report is left
\* out: no score is computed from it.

\* the items inside the bounds of one zone, both bounds inclusive
_get_items_in_zone(its, bounds) ==
    SelectIdx([i \in 1..Len(its) |-> InBounds(its[i].position, bounds)])

_calculate_zone_area(bounds) ==
    (bounds.x_max - bounds.x_min) * (bounds.y_max - bounds.y_min)

\* the number of items _get_items_in_zone finds in every zone of the table
ZoneCounts(its) ==
    [k \in 1..Len(ZoneNames) |->
        Len(_get_items_in_zone(its, _define_warehouse_zones[ZoneNames[k]].bounds))]

\* balance_score as a fraction <<numerator, denominator>>: 50 for one zone,
\* else max(0, 100 - variance / mean * 10) over the items per zone
BalanceScore(counts) ==
    LET n == Len(counts)
        S == SumSeq(counts)
        Q == SumSeq([k \in 1..n |-> (n * counts[k] - S) * (n * counts[k] - S)])
    IN  IF n <= 1 THEN <<50, 1>>
        ELSE IF 10 * Q >= 100 * n * n * S THEN <<0, 1>>
        ELSE <<100 * n * n * S - 10 * Q, n * n * S>>

_analyze_layout_efficiency(its) ==
    IF its = <<>> THEN [overall |-> 0, zone_balance |-> 0, accessibility |-> 0]
    ELSE TheOne({
            [overall |-> RoundHalfEven(100 * (balance[1] * Len(its) + 100 * high * balance[2]),
                                       2 * balance[2] * Len(its)),
             zone_balance |-> RoundHalfEven(100 * balance[1], balance[2]),
             accessibility |-> RoundHalfEven(10000 * high, Len(its))] :
            balance \in {BalanceScore(
                            [k \in 1..Len(ZoneGroupKeys(ZonesOf(its))) |->
                                Cardinality({i \in 1..Len(its) :
                                    ZonesOf(its)[i] = ZoneGroupKeys(ZonesOf(its))[k]})])},
            high \in {Cardinality({i \in 1..Len(its) :
                                    _get_item_zone(its[i]) = "high_velocity"})}})

_calculate_picking_density(its) ==
    [overall_density |->
        RoundHalfEven(1000000 * Len(its), warehouse_length * warehouse_width),
     zone_densities |->
        [k \in 1..Len(ZoneNames) |->
            RoundHalfEven(100000000 * ZoneCounts(its)[k],
                          _calculate_zone_area(_define_warehouse_zones[ZoneNames[k]].bounds))]]

\* traffic_score = round(len(items_in_zone) * (1.0 / priority), 2)
_estimate_traffic_patterns(its) ==
    TheOne({[zone_traffic |->
                [k \in 1..Len(ZoneNames) |->
                    [traffic_score |-> score[k],
                     congestion_risk |->
                        IF counts[k] > 10 * ZonePriority(ZoneNames[k]) THEN "high"
                        ELSE IF counts[k] > 5 * ZonePriority(ZoneNames[k]) THEN "medium"
                        ELSE "low"]],
             peak_zones |->
                [k \in 1..Min(3, Len(ZoneNames)) |->
                    ZoneNames[SortDesc(Indices(ZoneNames), score)[k]]]] :
            counts \in {ZoneCounts(its)},
            score \in {[k \in 1..Len(ZoneNames) |->
                            RoundHalfEven(100 * ZoneCounts(its)[k],
                                          ZonePriority(ZoneNames[k]))]}})

\* the overcrowded zones (density above 0.3 items per square metre), then the
\* narrow-aisle entry of a warehouse less than 6 m wide
_identify_bottlenecks(its) ==
    TheOne({[k \in 1..Len(crowded) |->
                [type |-> "high_density",
                 location |-> ZoneNames[crowded[k]],
                 severity |-> IF 100000 * counts[crowded[k]] > 5 * area[crowded[k]]
                              THEN "high" ELSE "medium",
                 items_affected |-> counts[crowded[k]]]]
            \o (IF warehouse_width < 60
                THEN <<[type |-> "narrow_aisle", location |-> "warehouse_layout",
                        severity |-> "medium", items_affected |-> Len(its)]>>
                ELSE <<>>) :
            counts \in {ZoneCounts(its)},
            area \in {[k \in 1..Len(ZoneNames) |->
                        _calculate_zone_area(_define_warehouse_zones[ZoneNames[k]].bounds)]},
            crowded \in {SelectIdx([k \in 1..Len(ZoneNames) |->
                            /\ ZoneCounts(its)[k] > 0
                            /\ 100000 * ZoneCounts(its)[k] >
                                3 * _calculate_zone_area(
                                        _define_warehouse_zones[ZoneNames[k]].bounds)])}})

\* round(layout * 0.4 + density_score * 0.3 + traffic_score * 0.3, 2)
_calculate_overall_efficiency_score(layout_efficiency, picking_density, traffic_analysis) ==
    LET layout_score == layout_efficiency.overall
        density_score == Max(0, 10000 - 5 * Abs(picking_density.overall_density - 1500))
        traffic_score == Max(0, 10000 - 2000 * Len(traffic_analysis.peak_zones))
    IN  RoundHalfEven(4 * layout_score + 3 * density_score + 3 * traffic_score, 10)

_generate_improvement_suggestions(layout_efficiency, traffic_analysis, bottlenecks) ==
    TheOne({IF suggestions = <<>> THEN <<"Current layout is well optimized">>
            ELSE suggestions :
            suggestions \in {
                (IF layout_efficiency.zone_balance < 7000
                 THEN <<"Rebalance item distribution across zones for better efficiency">>
                 ELSE <<>>)
                \o (IF layout_efficiency.accessibility < 6000
                    THEN <<"Move frequently accessed items to high-access zones">>
                    ELSE <<>>)
                \o (IF Len(traffic_analysis.peak_zones) > 2
                    THEN <<"Consider redistributing items to reduce traffic congestion">>
                    ELSE <<>>)
                \o [k \in 1..Len(SelectIdx([b \in 1..Len(bottlenecks) |->
                                                bottlenecks[b].severity = "high"])) |->
                        "Address high_density"]}})

calculate_workflow_efficiency(its) ==
    TheOne({[layout_efficiency |-> layout_efficiency,
             picking_density |-> picking_density,
             traffic_analysis |-> traffic_analysis,
             bottlenecks |-> bottlenecks,
             overall_score |-> _calculate_overall_efficiency_score(
                                    layout_efficiency, picking_density, traffic_analysis),
             improvement_suggestions |-> _generate_improvement_suggestions(
                                    layout_efficiency, traffic_analysis, bottlenecks)] :
            layout_efficiency \in {_analyze_layout_efficiency(its)},
            picking_density \in {_calculate_picking_density(its)},
            traffic_analysis \in {_estimate_traffic_patterns(its)},
            bottlenecks \in {_identify_bottlenecks(its)}})

\* the analysis of one zone; the density stays a fraction <<items, area>> and
\* avg_picking_time a fraction of minutes:
\* (15 * n + (n - 1) * 5 / 1.5) / 60 = (55 * n - 10) / 180
ZoneAnalysis(its, k) ==
    TheOne({[item_count |-> Len(inside),
             density |-> <<Len(inside), _calculate_zone_area(bounds)>>,
             access_points |->
                Max(1, (2 * (bounds.x_max - bounds.x_min)
                        + 2 * (bounds.y_max - bounds.y_min)) \div 1000),
             avg_picking_time |->
                IF inside = <<>> THEN <<0, 1>> ELSE <<55 * Len(inside) - 10, 180>>,
             items |-> [m \in 1..Len(inside) |-> its[inside[m]].name]] :
            inside \in {_get_items_in_zone(its, _define_warehouse_zones[ZoneNames[k]].bounds)},
            bounds \in {_define_warehouse_zones[ZoneNames[k]].bounds}})

\* per zone, in table order: the density recommendation, then the
\* picking-time recommendation
_generate_zone_recommendations(zone_analysis) ==
    LET of(k) ==
            (IF 10000 * zone_analysis[k].density[1] * 2 > zone_analysis[k].density[2]
             THEN <<[zone |-> ZoneNames[k], type |-> "density_optimization",
                     priority |-> "high"]>>
             ELSE <<>>)
            \o (IF zone_analysis[k].avg_picking_time[1]
                        > 10 * zone_analysis[k].avg_picking_time[2]
                THEN <<[zone |-> ZoneNames[k], type |-> "efficiency_improvement",
                        priority |-> "medium"]>>
                ELSE <<>>)
    IN  ConcatTo([k \in 1..Len(zone_analysis) |-> of(k)], Len(zone_analysis))

\* the zones by item_count / priority, largest first
_calculate_optimal_flow(zone_analysis) ==
    TheOne({[k \in 1..Len(ZoneNames) |-> ZoneNames[order[k]]] :
            order \in {SortDesc(Indices(ZoneNames),
                                [k \in 1..Len(ZoneNames) |->
                                    (12 * zone_analysis[k].item_count)
                                        \div ZonePriority(ZoneNames[k])])}})

optimize_zone_layout(its) ==
    TheOne({[zone_analysis |-> zone_analysis,
             recommendations |-> _generate_zone_recommendations(zone_analysis),
             total_zones |-> Len(ZoneNames),
             optimal_flow |-> _calculate_optimal_flow(zone_analysis)] :
            zone_analysis \in {[k \in 1..Len(ZoneNames) |-> ZoneAnalysis(its, k)]}})

\* ------------------------------------------------------------------ actions
Init ==
    /\ \E w \in Warehouses :
        /\ warehouse_length = w[1]
        /\ warehouse_width = w[2]
        /\ warehouse_height = w[3]
    /\ occupancy_grid = {}
    /\ placed_items_tracker = <<>>
    /\ pc = "idle"
    /\ raised = "none"
    /\ items = <<>>
    /\ algorithm = "none"
    /\ processed_items = <<>>
    /\ pending = <<>>
    /\ result = <<>>
    /\ metrics = None
    /\ last_outcome = "none"
    /\ placed_items = <<>>
    /\ pick_list = <<>>
    /\ picking_result = None
    /\ workflow_report = None

\* the selector after 'auto' resolution
ResolveAlgorithm(req, its) ==
    IF req.use_ml_prediction /\ req.algorithm = "auto"
    THEN predict_optimal_algorithm(its)
    ELSE req.algorithm

\* The item lists a call can bring: any list for the first call on an
\* engine, the same list again for a later call.
CallItemLists == IF pc = "idle" THEN ItemLists ELSE {items}

\* a start of optimize that keeps the grid and the tracker of the last call
OptimizeBeginKeepsGrid(its, req, seasonal_predictions) ==
    /\ pc \in {"idle", "done", "raised"}
    /\ items' = its
    /\ algorithm' = ResolveAlgorithm(req, its)
    /\ processed_items' = ProcessedItems(its, seasonal_predictions)
    /\ result' = <<>>
    /\ metrics' = None
    /\ last_outcome' = (IF pc = "idle" THEN "none" ELSE IF pc = "done" THEN "returned" ELSE raised)
    /\ UNCHANGED <<warehouse_length, warehouse_width, warehouse_height,
                   occupancy_grid, placed_items_tracker, pickvars>>

\* a start of optimize that resets the grid and keeps the tracker
OptimizeBeginKeepsTracker(its, req, seasonal_predictions) ==
    /\ pc \in {"idle", "done", "raised"}
    /\ occupancy_grid' = {}
    /\ items' = its
    /\ algorithm' = ResolveAlgorithm(req, its)
    /\ processed_items' = ProcessedItems(its, seasonal_predictions)
    /\ result' = <<>>
    /\ metrics' = None
    /\ last_outcome' = (IF pc = "idle" THEN "none" ELSE IF pc = "done" THEN "returned" ELSE raised)
    /\ UNCHANGED <<warehouse_length, warehouse_width, warehouse_height,
                   placed_items_tracker, pickvars>>

\* optimize, up to the selection of the strategy: the grid and the tracker
\* are reset, the units are built
OptimizeBegin(its, req, seasonal_predictions) ==
    /\ pc \in {"idle", "done", "raised"}
    /\ occupancy_grid' = {}
    /\ placed_items_tracker' = <<>>
    /\ items' = its
    /\ algorithm' = ResolveAlgorithm(req, its)
    /\ processed_items' = ProcessedItems(its, seasonal_predictions)
    /\ result' = <<>>
    /\ metrics' = None
    /\ last_outcome' = (IF pc = "idle" THEN "none" ELSE IF pc = "done" THEN "returned" ELSE raised)
    /\ UNCHANGED <<warehouse_length, warehouse_width, warehouse_height, pickvars>>

\* optimize called with a known strategy: the strategy starts
OptimizeStart ==
    \E its \in CallItemLists :
        \E seasonal_predictions \in SeasonalPredictions(its), req \in Requests :
            /\ ResolveAlgorithm(req, its) \in KnownAlgorithms
            /\ OptimizeBegin(its, req, seasonal_predictions)
            /\ pc' = "placing"
            /\ raised' = "none"
            /\ pending' = AttemptOrder(algorithm', processed_items')

\* optimize called with an unknown strategy: ValueError
OptimizeUnknownAlgorithm ==
    \E its \in CallItemLists :
        \E seasonal_predictions \in SeasonalPredictions(its), req \in Requests :
            /\ ResolveAlgorithm(req, its) \notin KnownAlgorithms
            /\ OptimizeBegin(its, req, seasonal_predictions)
            /\ pc' = "raised"
            /\ raised' = "ValueError"
            /\ pending' = <<>>

\* the next unit of the running strategy is attempted by the given pass
AttemptStep(pass) ==
    /\ pc = "placing"
    /\ pending # <<>>
    /\ Head(pending)[2] = pass
    /\ \E st \in {Attempt(RunState(occupancy_grid, placed_items_tracker,
                                   processed_items, result),
                          Head(pending)[1], pass)} :
           /\ occupancy_grid' = st.grid
           /\ placed_items_tracker' = st.tracker
           /\ processed_items' = st.units
           /\ result' = st.placed
    /\ pending' = Tail(pending)
    /\ UNCHANGED <<warehouse_length, warehouse_width, warehouse_height, pc, raised,
                   items, algorithm, metrics, last_outcome, pickvars>>

\* an iteration of the loop of _bin_packing_optimization
BinPackingStep ==
    /\ pc = "placing"
    /\ AttemptStep("bin_packing")

\* an iteration of the loop of _space_filling_optimization
SpaceFillingStep ==
    /\ pc = "placing"
    /\ AttemptStep("space_filling")

\* an iteration of the loop of _ml_enhanced_optimization
ZoneHintedStep ==
    /\ pc = "placing"
    /\ AttemptStep("zone_hinted")

\* the list the strategy returned: the placed units, in the order placed
ResultItems == [k \in 1..Len(result) |-> processed_items[result[k]]]

\* the strategy has returned; the analyses and the metrics are computed and
\* the result is returned
OptimizeReturn ==
    /\ pc = "placing"
    /\ pending = <<>>
    /\ ~FloorAreaIsZero
    /\ ~PickingDividesByZero(ResultItems, <<>>)
    /\ ~MetricsDivideByZero(processed_items)
    /\ pc' = "done"
    /\ metrics' = _calculate_metrics(processed_items, result)
    /\ UNCHANGED <<warehouse_length, warehouse_width, warehouse_height, occupancy_grid,
                   placed_items_tracker, raised, items, algorithm, processed_items,
                   pending, result, last_outcome, pickvars>>

\* the strategy has returned, and the analyses or the metrics divide by zero
OptimizeDivideByZero ==
    /\ pc = "placing"
    /\ pending = <<>>
    /\ \/ FloorAreaIsZero
       \/ PickingDividesByZero(ResultItems, <<>>)
       \/ MetricsDivideByZero(processed_items)
    /\ pc' = "raised"
    /\ raised' = "ZeroDivisionError"
    /\ UNCHANGED <<warehouse_length, warehouse_width, warehouse_height, occupancy_grid,
                   placed_items_tracker, items, algorithm, processed_items,
                   pending, result, metrics, last_outcome, pickvars>>

Next ==
    \/ OptimizeStart
    \/ OptimizeUnknownAlgorithm
    \/ BinPackingStep
    \/ SpaceFillingStep
    \/ ZoneHintedStep
    \/ OptimizeReturn
    \/ OptimizeDivideByZero

Spec == Init /\ [][Next]_vars

\* ------------------------------------------------------- picking requests
\* A picking request: a planner is built for the warehouse and
\* optimize_picking_path is called once with the placed items and the pick
\* list of the request.  pc is "idle" before the call, "done" after its
\* return and "raised" after an exception.

\* the longest list of placed items handed to one picking request
MaxPicked == 3

\* the warehouse of the picking requests: 10 x 2 x 3
PickWarehouses == {<<100, 20, 30>>}

\* the placed items a request can contain: positions the scans of a
\* 10 x 2 x 3 warehouse produce, in every zone and outside all zones
PickUnits == {
    [name |-> NamePallet, position |-> <<0, 8, 0>>],
    [name |-> NamePallet, position |-> <<0, 8, 10>>],
    [name |-> NamePallet, position |-> <<0, 8, 20>>],
    [name |-> NameBox,    position |-> <<0, 0, 0>>],
    [name |-> NameBox,    position |-> <<35, 0, 0>>],
    [name |-> NameBox,    position |-> <<70, 5, 0>>],
    [name |-> NameNoType, position |-> <<5, 13, 0>>],
    [name |-> NameBox,    position |-> <<0, 20, 0>>] }

PlacedLists == UNION {[1..n -> PickUnits] : n \in 0..MaxPicked}

\* the pick lists of a request: none, and lists that name some, all or none
\* of the placed items
PickLists == {<<>>, <<NamePallet>>, <<NameBox>>, <<NameCrate>>, <<NameBox, NamePallet>>}

PickInit ==
    /\ \E w \in PickWarehouses :
        /\ warehouse_length = w[1]
        /\ warehouse_width = w[2]
        /\ warehouse_height = w[3]
    /\ occupancy_grid = {}
    /\ placed_items_tracker = <<>>
    /\ pc = "idle"
    /\ raised = "none"
    /\ items = <<>>
    /\ algorithm = "none"
    /\ processed_items = <<>>
    /\ pending = <<>>
    /\ result = <<>>
    /\ metrics = None
    /\ last_outcome = "none"
    /\ placed_items \in PlacedLists
    /\ pick_list \in PickLists
    /\ picking_result = None
    /\ workflow_report = None

\* what a picking request leaves alone
PickUnchanged ==
    UNCHANGED <<warehouse_length, warehouse_width, warehouse_height, occupancy_grid,
                placed_items_tracker, items, algorithm, processed_items, pending,
                result, metrics, last_outcome, placed_items, pick_list,
                workflow_report>>

\* optimize_picking_path finds nothing to pick and returns the empty result
OptimizePickingEmpty ==
    /\ pc = "idle"
    /\ ItemsToPick(placed_items, pick_list) = <<>>
    /\ picking_result' = optimize_picking_path(placed_items, pick_list)
    /\ pc' = "done"
    /\ raised' = "none"
    /\ PickUnchanged

\* optimize_picking_path plans a path and returns it
OptimizePickingPath ==
    /\ pc = "idle"
    /\ ItemsToPick(placed_items, pick_list) # <<>>
    /\ ~PickingDividesByZero(placed_items, pick_list)
    /\ picking_result' = optimize_picking_path(placed_items, pick_list)
    /\ pc' = "done"
    /\ raised' = "none"
    /\ PickUnchanged

\* optimize_picking_path raises ZeroDivisionError in the path efficiency
OptimizePickingDivideByZero ==
    /\ pc = "idle"
    /\ PickingDividesByZero(placed_items, pick_list)
    /\ pc' = "raised"
    /\ raised' = "ZeroDivisionError"
    /\ UNCHANGED picking_result
    /\ PickUnchanged

PickNext ==
    \/ OptimizePickingEmpty
    \/ OptimizePickingPath
    \/ OptimizePickingDivideByZero

PickSpec == PickInit /\ [][PickNext]_vars

\* ----------------------------------------------------- workflow requests
\* the warehouses of a workflow request: the one of the picking requests and
\* one without floor area
WorkflowWarehouses == PickWarehouses \cup {<<0, 20, 30>>}

\* a workflow request: a warehouse and a list of placed items
WorkflowInit ==
    /\ \E w \in WorkflowWarehouses :
        /\ warehouse_length = w[1]
        /\ warehouse_width = w[2]
        /\ warehouse_height = w[3]
    /\ occupancy_grid = {}
    /\ placed_items_tracker = <<>>
    /\ pc = "idle"
    /\ raised = "none"
    /\ items = <<>>
    /\ algorithm = "none"
    /\ processed_items = <<>>
    /\ pending = <<>>
    /\ result = <<>>
    /\ metrics = None
    /\ last_outcome = "none"
    /\ placed_items \in PlacedLists
    /\ pick_list = <<>>
    /\ picking_result = None
    /\ workflow_report = None

\* the handler of a workflow request returns both analyses
AnalyzeWorkflow ==
    /\ pc = "idle"
    /\ ~FloorAreaIsZero
    /\ workflow_report' =
            [workflow_efficiency |-> calculate_workflow_efficiency(placed_items),
             zone_optimization |-> optimize_zone_layout(placed_items)]
    /\ pc' = "done"
    /\ raised' = "none"
    /\ UNCHANGED <<warehouse_length, warehouse_width, warehouse_height, occupancy_grid,
                   placed_items_tracker, items, algorithm, processed_items, pending,
                   result, metrics, last_outcome, placed_items, pick_list,
                   picking_result>>

\* the density report divides by the floor area: the handler answers with
\* an error
AnalyzeWorkflowDivideByZero ==
    /\ pc = "idle"
    /\ FloorAreaIsZero
    /\ pc' = "raised"
    /\ raised' = "ZeroDivisionError"
    /\ UNCHANGED picking_result
    /\ PickUnchanged

WorkflowNext ==
    \/ AnalyzeWorkflow
    \/ AnalyzeWorkflowDivideByZero

WorkflowSpec == WorkflowInit /\ [][WorkflowNext]_vars

\* ------------------------------------------------------- unit expansion alone
\* the largest quantity of an item spec
MaxQuantity == 3

\* item specs of every quantity from 0, with and without a seasonal name
ExpansionCatalog ==
    {[name |-> n, length |-> 10, width |-> 10, height |-> 10, quantity |-> q, weight |-> 0] :
        n \in {NameBox, NameWinterBox}, q \in 0..MaxQuantity}

ExpansionItemLists == UNION {[1..n -> ExpansionCatalog] : n \in 1..MaxItems}

\* an item list waits for its expansion
ExpansionInit ==
    /\ warehouse_length = 100
    /\ warehouse_width = 50
    /\ warehouse_height = 30
    /\ occupancy_grid = {}
    /\ placed_items_tracker = <<>>
    /\ pc = "idle"
    /\ raised = "none"
    /\ items \in ExpansionItemLists
    /\ algorithm = "none"
    /\ processed_items = <<>>
    /\ pending = <<>>
    /\ result = <<>>
    /\ metrics = None
    /\ last_outcome = "none"
    /\ placed_items = <<>>
    /\ pick_list = <<>>
    /\ picking_result = None
    /\ workflow_report = None

\* the expansion optimize makes before it runs a strategy: the quantities are
\* scaled by the seasonal prediction of the month, then one unit is made per
\* quantity index
ExpandUnits ==
    /\ pc = "idle"
    /\ \E seasonal_predictions \in SeasonalPredictions(items) :
            processed_items' = ProcessedItems(items, seasonal_predictions)
    /\ pc' = "expanded"
    /\ UNCHANGED <<warehouse_length, warehouse_width, warehouse_height, occupancy_grid,
                   placed_items_tracker, raised, items, algorithm, pending, result,
                   metrics, last_outcome, pickvars>>

ExpansionSpec == ExpansionInit /\ [][ExpandUnits]_vars

\* ------------------------------------------------------------------ claims
\* an optimize call has returned its result
Returned == pc = "done"

\* the units of the current call that carry the placed flag
PlacedUnits == {i \in 1..Len(processed_items) : processed_items[i].placed}

\* the box (x_min, y_min, z_min, x_max, y_max, z_max) of a placed unit, with
\* the unit's final dimensions
UnitBox(u) ==
    <<u.position[1], u.position[2], u.position[3],
      u.position[1] + u.length, u.position[2] + u.width, u.position[3] + u.height>>

\* two boxes intersect in a region of positive volume
Overlap(a, b) ==
    /\ a[1] < b[4] /\ b[1] < a[4]
    /\ a[2] < b[5] /\ b[2] < a[5]
    /\ a[3] < b[6] /\ b[3] < a[6]

\* the volume of the placed units of the returned result
ReturnedVolume == PlacedVolume(processed_items, result)

\* the 'placed_items' and 'unplaced_items' lists of the response a strategy
\* state gives
ResponseOf(st) ==
    [placed_items |-> PlacedItems(st.units, st.placed),
     unplaced_items |-> UnplacedItems(st.units)]

\* C1: after an optimize run with any strategy and any item dimensions, no
\* two placed units' boxes intersect in a region of positive volume.
C1_NoOverlap ==
    Returned =>
        \A i, j \in PlacedUnits :
            i # j => ~Overlap(UnitBox(processed_items[i]), UnitBox(processed_items[j]))

\* C2: after an optimize run, every pair of placed units whose type tags
\* differ (the empty tag included) is at box distance >= 1.0.
C2_TypeClearance ==
    Returned =>
        \A i, j \in PlacedUnits :
            _get_object_type(processed_items[i].name) # _get_object_type(processed_items[j].name)
                => BoxDistanceSquared(UnitBox(processed_items[i]), UnitBox(processed_items[j]))
                        >= type_distance_constraint * type_distance_constraint

\* C3: every placed unit lies fully inside the warehouse with its final
\* dimensions.
C3_InsideWarehouse ==
    Returned =>
        \A i \in PlacedUnits :
            /\ UnitBox(processed_items[i])[1] >= 0
            /\ UnitBox(processed_items[i])[2] >= 0
            /\ UnitBox(processed_items[i])[3] >= 0
            /\ UnitBox(processed_items[i])[4] <= warehouse_length
            /\ UnitBox(processed_items[i])[5] <= warehouse_width
            /\ UnitBox(processed_items[i])[6] <= warehouse_height

\* both orientations of the unit exceed the warehouse in some axis
ExceedsBothOrientations(u) ==
    /\ ~FitsWarehouse(Rotations(u)[1])
    /\ ~FitsWarehouse(Rotations(u)[2])

\* C4: for every strategy, a unit both of whose orientations exceed the
\* warehouse is never placed: it keeps placed = false and no position.
C4_OversizeNeverPlaced ==
    \A i \in 1..Len(processed_items) :
        ExceedsBothOrientations(processed_items[i])
            => ~processed_items[i].placed /\ processed_items[i].position = None

ZeroDimension == warehouse_length = 0 \/ warehouse_width = 0 \/ warehouse_height = 0

\* C5: with a zero warehouse dimension, optimize with a named strategy does
\* not raise.
C5_ZeroDimensionNeverRaises ==
    (ZeroDimension /\ algorithm \in KnownAlgorithms) => raised = "none"

\* C6: an unknown strategy name (after 'auto' resolution) ends the call in
\* ValueError, and only an unknown name does; when the error is raised no
\* unit is placed, the grid and the tracker are empty, and a following valid
\* optimize call can start on the engine.
C6_UnknownStrategyRejected ==
    /\ (pc # "idle" /\ algorithm \notin KnownAlgorithms)
            => (pc = "raised" /\ raised = "ValueError")
    /\ raised = "ValueError" =>
        /\ algorithm \notin KnownAlgorithms
        /\ occupancy_grid = {}
        /\ placed_items_tracker = <<>>
        /\ result = <<>>
        /\ PlacedUnits = {}
        /\ ENABLED OptimizeStart

\* a valid call that followed a ValueError on the same engine has returned
\* with units placed
C6_Witness ==
    /\ last_outcome = "ValueError"
    /\ Returned
    /\ result # <<>>

\* a whole bin-packing run on the item list under a seasonal prediction
BinPackingRun(its, seasonal_predictions) ==
    TheOne({RunAttempts(RunState({}, <<>>, units, <<>>), AttemptOrder("bin_packing", units)) :
            units \in {ProcessedItems(its, seasonal_predictions)}})

\* C7: a bin-packing run returns the same placed and unplaced lists as any
\* other bin-packing run on the same warehouse and item list, whatever month
\* the seasonal-demand collaborator reads.
C7_MonthIndependent ==
    (Returned /\ algorithm = "bin_packing") =>
        \A seasonal_predictions \in SeasonalPredictions(items) :
            ResponseOf(BinPackingRun(items, seasonal_predictions))
                = ResponseOf(RunState(occupancy_grid, placed_items_tracker,
                                      processed_items, result))

\* C8 as stated: with a positive warehouse volume the reported utilization
\* is exactly 100 * placed volume / warehouse volume and volume_used is
\* exactly the placed volume.
C8_ExactUtilization ==
    (Returned /\ warehouse_volume > 0) =>
        /\ metrics.utilization * warehouse_volume = 10000 * ReturnedVolume
        /\ 10 * metrics.volume_used = ReturnedVolume

\* C8 amended: with a positive warehouse volume the reported utilization is
\* 100 * placed volume / warehouse volume rounded to two decimals (it is
\* within 0.005 of the quotient) and volume_used is the placed volume
\* rounded to two decimals.
C8_RoundedUtilization ==
    (Returned /\ warehouse_volume > 0) =>
        /\ 2 * Abs(metrics.utilization * warehouse_volume - 10000 * ReturnedVolume)
                <= warehouse_volume
        /\ 2 * Abs(10 * metrics.volume_used - ReturnedVolume) <= 10

\* a result was returned whose utilization is not a two-decimal number
C8_Witness ==
    /\ Returned
    /\ warehouse_volume > 0
    /\ result # <<>>
    /\ metrics.utilization * warehouse_volume # 10000 * ReturnedVolume

\* the number of entries the placed list has for unit i
InPlacedList(i) == Cardinality({k \in 1..Len(result) : result[k] = i})

\* the number of entries the unplaced list has for unit i
InUnplacedList(i) == IF processed_items[i].placed THEN 0 ELSE 1

\* every unit is in exactly one of the two lists of the response, with the
\* flag and the position of its list, and the counts are the lists' lengths
ListsPartitionUnits ==
    /\ \A i \in 1..Len(processed_items) :
        /\ InPlacedList(i) + InUnplacedList(i) = 1
        /\ InPlacedList(i) = 1 =>
              processed_items[i].placed /\ processed_items[i].position # None
        /\ InUnplacedList(i) = 1 =>
              ~processed_items[i].placed /\ processed_items[i].position = None
    /\ metrics.items_placed = Len(PlacedItems(processed_items, result))
    /\ metrics.items_total =
          Len(PlacedItems(processed_items, result)) + Len(UnplacedItems(processed_items))

\* C9 as stated: at the end of a successful run the two lists partition the
\* units, the counts are the lists' lengths, and space_efficiency is exactly
\* 100 * items_placed / items_total.
C9_ExactEfficiency ==
    Returned =>
        /\ ListsPartitionUnits
        /\ metrics.efficiency * metrics.items_total = 10000 * metrics.items_placed

\* C9 amended: at the end of a successful run the two lists partition the
\* units, the counts are the lists' lengths, and space_efficiency is
\* 100 * items_placed / items_total rounded to two decimals.
C9_RoundedEfficiency ==
    Returned =>
        /\ ListsPartitionUnits
        /\ 2 * Abs(metrics.efficiency * metrics.items_total - 10000 * metrics.items_placed)
                <= metrics.items_total

\* a run returned with units in both lists and an efficiency that is not a
\* two-decimal number
C9_Witness ==
    /\ Returned
    /\ result # <<>>
    /\ UnplacedItems(processed_items) # <<>>
    /\ metrics.efficiency * metrics.items_total # 10000 * metrics.items_placed

\* Scenario A: the 10 x 5 x 3 warehouse, one item spec 2 x 2 x 2 with
\* quantity 1, bin packing, returned
ScenarioA ==
    /\ <<warehouse_length, warehouse_width, warehouse_height>> = <<100, 50, 30>>
    /\ Len(items) = 1
    /\ <<items[1].length, items[1].width, items[1].height, items[1].quantity>>
            = <<20, 20, 20, 1>>
    /\ algorithm = "bin_packing"
    /\ Returned

\* C10: Scenario A places exactly one unit at (0, 0, 0) with rotation 0,
\* leaves nothing unplaced and reports utilization 5.33 percent.
C10_ScenarioA ==
    ScenarioA =>
        /\ Len(PlacedItems(processed_items, result)) = 1
        /\ PlacedItems(processed_items, result)[1].position = <<0, 0, 0>>
        /\ PlacedItems(processed_items, result)[1].rotation = 0
        /\ UnplacedItems(processed_items) = <<>>
        /\ metrics.utilization = 533

\* Scenario A has run and its unit is in the placed list
C10_Witness ==
    /\ ScenarioA
    /\ result = <<1>>

\* Scenario B: two 1 x 1 x 1 units whose names give different type tags, bin
\* packing, in the 10 x 5 x 3 warehouse (which has room for both at any
\* clearance)
ScenarioB ==
    /\ <<warehouse_length, warehouse_width, warehouse_height>> = <<100, 50, 30>>
    /\ Len(items) = 2
    /\ \A k \in 1..2 :
         <<items[k].length, items[k].width, items[k].height, items[k].quantity>>
            = <<10, 10, 10, 1>>
    /\ TypeOf[items[1].name] # TypeOf[items[2].name]
    /\ algorithm = "bin_packing"
    /\ Returned

\* C11: in Scenario B both units are placed and the distance between their
\* boxes is at least the clearance of 1.0: the second unit is moved away from
\* the first collision-free origin to one that satisfies the clearance.
C11_ScenarioB ==
    ScenarioB =>
        /\ PlacedUnits = {1, 2}
        /\ BoxDistanceSquared(UnitBox(processed_items[1]), UnitBox(processed_items[2]))
              >= type_distance_constraint * type_distance_constraint

\* ------------------------------------------------- claims on picking requests
\* the picking request has returned
PickReturned == pc = "done" /\ picking_result # None

\* the eligible units of the request: all placed items when there is no
\* pick list, else the placed items whose name is in the pick list
EligibleUnits ==
    {i \in 1..Len(placed_items) :
        pick_list = <<>> \/ \E k \in 1..Len(pick_list) : pick_list[k] = placed_items[i].name}

\* Scenario C: a pick list that is not empty and names no placed item
ScenarioC ==
    /\ pick_list # <<>>
    /\ \A i \in 1..Len(placed_items), k \in 1..Len(pick_list) :
            placed_items[i].name # pick_list[k]

\* C12: in Scenario C optimize_picking_path does not raise and returns the
\* empty-path result: total_distance 0, estimated_time 0, path_efficiency 0,
\* no waypoints, no zone_sequence, no picking_zones and items_to_pick 0.
C12_ScenarioC ==
    ScenarioC =>
        /\ pc # "raised"
        /\ PickReturned =>
            /\ picking_result.total_distance = <<>>
            /\ picking_result.estimated_time
                  = [walking |-> <<>>, item_count |-> 0, zone_transitions |-> 0]
            /\ picking_result.path_efficiency = [percent |-> 0, limited |-> FALSE]
            /\ picking_result.waypoints = <<>>
            /\ picking_result.zone_sequence = <<>>
            /\ picking_result.picking_zones = <<>>
            /\ picking_result.items_to_pick = 0
            /\ picking_result.path_data
                  = [waypoints |-> <<>>, zone_sequence |-> <<>>, path_segments |-> <<>>]

\* Scenario C has run on a placed list that is not empty
C12_Witness ==
    /\ ScenarioC
    /\ PickReturned
    /\ Len(placed_items) >= 2

\* C14: the number of waypoints optimize_picking_path returns is the number
\* of eligible units, and the waypoints are the positions of the eligible
\* units, each unit giving one waypoint.
C14_WaypointsAreEligiblePositions ==
    PickReturned =>
        /\ Len(picking_result.waypoints) = Cardinality(EligibleUnits)
        /\ picking_result.items_to_pick = Cardinality(EligibleUnits)
        /\ picking_result.path_data.waypoints = picking_result.waypoints
        /\ \A u \in PickUnits :
              Cardinality({k \in 1..Len(picking_result.waypoints) :
                              picking_result.waypoints[k] = u.position})
                = Cardinality({i \in EligibleUnits : placed_items[i].position = u.position})

\* a path over two eligible units in different zones has been returned for
\* a pick list that leaves a placed item out
C14_Witness ==
    /\ PickReturned
    /\ pick_list # <<>>
    /\ Len(placed_items) = 3
    /\ Cardinality(EligibleUnits) = 2
    /\ Len(picking_result.zone_sequence) = 2

\* C15: optimize_picking_path never divides by zero, the path efficiency it
\* returns is within 0 .. 100, and it is 100 when exactly one unit is
\* eligible.
C15_PathEfficiencyInRange ==
    /\ raised # "ZeroDivisionError"
    /\ PickReturned =>
        /\ ~picking_result.path_efficiency.limited =>
              picking_result.path_efficiency.percent \in 0..10000
        /\ Cardinality(EligibleUnits) = 1 =>
              picking_result.path_efficiency = [percent |-> 10000, limited |-> FALSE]

\* ------------------------------------------------ claims on the strategy steps
\* the unit the next step of the running strategy attempts
NextUnit == Head(pending)[1]

\* the unit is one the space-filling pass attempts: every unit under
\* 'space_filling', the small units under 'hybrid'
SpaceFillingUnit(i) ==
    \/ algorithm = "space_filling"
    \/ algorithm = "hybrid" /\ ~IsLarge(processed_items[i])

\* none of the ground-level candidates takes the unit in the current grid
NoGroundCandidate(i) ==
    \A k \in 1..Len(_generate_z_order_positions) :
        ~_can_place_item(occupancy_grid, placed_items_tracker, processed_items[i],
                         _generate_z_order_positions[k])

\* a step of the space-filling pass raises nothing, places its unit at
\* z = 0 if at all, and leaves it unplaced (position None, grid untouched)
\* when no ground-level candidate takes it
SpaceFillingStepAtGround ==
    SpaceFillingStep =>
        /\ pc' = "placing"
        /\ raised' = "none"
        /\ processed_items'[NextUnit].placed => processed_items'[NextUnit].position[3] = 0
        /\ NoGroundCandidate(NextUnit) =>
              /\ processed_items'[NextUnit] = processed_items[NextUnit]
              /\ ~processed_items'[NextUnit].placed
              /\ processed_items'[NextUnit].position = None
              /\ occupancy_grid' = occupancy_grid

\* C13: every unit placed by space filling, and every small unit placed by
\* the space-filling pass of hybrid, has z = 0; a unit with no feasible
\* ground-level candidate stays unplaced, without error, also when there is
\* free volume above the placed units.
C13_SpaceFillingGroundLevel ==
    /\ [](\A i \in PlacedUnits : SpaceFillingUnit(i) => processed_items[i].position[3] = 0)
    /\ [][SpaceFillingStepAtGround]_vars

\* Scenario D: a space-filling run has returned with a unit unplaced while
\* the whole-warehouse scan still finds room for that unit above ground
C13_Witness ==
    /\ Returned
    /\ algorithm = "space_filling"
    /\ PlacedUnits # {}
    /\ \E i \in 1..Len(processed_items) :
          /\ ~processed_items[i].placed
          /\ \E found \in {_find_best_position(occupancy_grid, placed_items_tracker,
                                               processed_items[i])} :
                found.position # None /\ found.position[3] > 0

\* what one step of a run does to the unit i: a placed unit is not touched
\* again; a unit that becomes placed gets its position, and its rotation is
\* 90 exactly with length and width swapped, 0 with both kept; a unit that
\* stays unplaced is not touched; height and volume are never written
UnitWrittenOnce(i) ==
    LET u == processed_items[i]
        v == processed_items'[i]
    IN  /\ u.placed => v = u
        /\ ~u.placed /\ v.placed =>
              /\ v.position # None
              /\ v.rotation \in {0, 90}
              /\ v.rotation = 90 => v.length = u.width /\ v.width = u.length
              /\ v.rotation = 0 => v.length = u.length /\ v.width = u.width
              /\ v = [u EXCEPT !.placed = TRUE, !.position = v.position,
                               !.rotation = v.rotation, !.length = v.length,
                               !.width = v.width]
        /\ ~u.placed /\ ~v.placed => v = u

\* the unit has the extents of an item spec of the request with its name
HasOriginalExtents(u) ==
    \E k \in 1..Len(items) :
        /\ items[k].name = u.name
        /\ <<items[k].length, items[k].width, items[k].height>> = <<u.length, u.width, u.height>>

\* C16: within a run every unit goes from unplaced to placed at most once;
\* position, rotation and the swapped length and width are written at that
\* moment only and never change afterwards; rotation is 0 or 90, 90 only
\* with length and width swapped; height and volume are never modified; an
\* unplaced unit keeps position None, rotation 0 and its original length
\* and width.
C16_UnitsWrittenOnce ==
    /\ [][pc = "placing" =>
            /\ Len(processed_items') = Len(processed_items)
            /\ \A i \in 1..Len(processed_items) : UnitWrittenOnce(i)]_vars
    /\ [](\A i \in 1..Len(processed_items) :
            /\ processed_items[i].volume
                  = processed_items[i].length * processed_items[i].width
                        * processed_items[i].height
            /\ processed_items[i].placed =>
                  processed_items[i].position # None /\ processed_items[i].rotation \in {0, 90}
            /\ ~processed_items[i].placed =>
                  /\ processed_items[i].position = None
                  /\ processed_items[i].rotation = 0
                  /\ HasOriginalExtents(processed_items[i]))

\* a run has returned with a unit placed in the swapped orientation, a unit
\* placed as given and a unit left unplaced
C16_Witness ==
    /\ Returned
    /\ \E i, j, k \in 1..Len(processed_items) :
          /\ processed_items[i].placed /\ processed_items[i].rotation = 90
          /\ processed_items[j].placed /\ processed_items[j].rotation = 0
          /\ ~processed_items[k].placed

\* the seasonal predictions of the current call, read off its units
CallSeasonalPredictions ==
    CHOOSE seasonal_predictions \in SeasonalPredictions(items) :
        \A i \in 1..Len(processed_items) :
            seasonal_predictions[processed_items[i].name] = processed_items[i].seasonal_factor

\* the run of the current call's strategy on an engine that has made no
\* call before: empty grid, empty tracker, the units as built
FreshRun ==
    TheOne({RunAttempts(RunState({}, <<>>, units, <<>>), AttemptOrder(algorithm, units)) :
            units \in {ProcessedItems(items, CallSeasonalPredictions)}})

\* C17: when the selected strategy of an optimize call starts, the grid is
\* all free and the tracker is empty, whatever calls the engine has served
\* before; so a later call on the same engine returns the placement the
\* same call returns on a fresh engine.
C17_StrategyStartsOnEmptyGrid ==
    /\ [][pc' = "placing" /\ pc # "placing" =>
            /\ occupancy_grid' = {}
            /\ placed_items_tracker' = <<>>
            /\ result' = <<>>]_vars
    /\ [](Returned =>
            ResponseOf(FreshRun)
                = ResponseOf(RunState(occupancy_grid, placed_items_tracker,
                                      processed_items, result)))

\* a call has returned placed units on an engine whose previous call had
\* returned placed units too
C17_Witness ==
    /\ Returned
    /\ last_outcome = "returned"
    /\ result # <<>>
    /\ occupancy_grid # {}

\* the voxels of the grid
GridVoxels == (0..(grid_length - 1)) \X (0..(grid_width - 1)) \X (0..(grid_height - 1))

\* the cube of the voxel v and the box b intersect in a region of positive
\* volume
VoxelIntersects(v, b) ==
    /\ v[1] * grid_resolution < b[4] /\ b[1] < (v[1] + 1) * grid_resolution
    /\ v[2] * grid_resolution < b[5] /\ b[2] < (v[2] + 1) * grid_resolution
    /\ v[3] * grid_resolution < b[6] /\ b[3] < (v[3] + 1) * grid_resolution

\* C18: in every state of a run a voxel is marked occupied exactly when the
\* box of at least one placed unit covers it; every voxel a placed unit's box
\* intersects, also partially, is marked.
C18_GridMatchesBoxes ==
    pc \in {"placing", "done"} =>
        \A v \in GridVoxels :
            v \in occupancy_grid
                <=> \E i \in PlacedUnits : VoxelIntersects(v, UnitBox(processed_items[i]))

\* the origins the whole-warehouse scan visits for the extents dims: steps of
\* 0.5 from (0, 0, 0) as long as the box stays inside the warehouse
ScanGrid(dims) ==
    {<<grid_resolution * a, grid_resolution * b, grid_resolution * c>> :
        a \in 0..((warehouse_length - dims[1]) \div grid_resolution),
        b \in 0..((warehouse_width - dims[2]) \div grid_resolution),
        c \in 0..((warehouse_height - dims[3]) \div grid_resolution)}

\* the origin o is feasible for the unit u with the extents dims in the
\* current grid and tracker
FeasibleOrigin(u, dims, o) ==
    _can_place_item_at_position(occupancy_grid, placed_items_tracker,
                                dims[1], dims[2], dims[3], o[1], o[2], o[3],
                                TypeOf[u.name])

\* o comes before p in the scan: x outer, y middle, z inner
ScannedBefore(o, p) ==
    \/ o[1] < p[1]
    \/ o[1] = p[1] /\ o[2] < p[2]
    \/ o[1] = p[1] /\ o[2] = p[2] /\ o[3] < p[3]

\* the attempts still to make are in non-increasing volume order, units of
\* equal volume in input order
PendingByVolume ==
    \A k, l \in 1..Len(pending) :
        k < l =>
            \/ processed_items[pending[k][1]].volume > processed_items[pending[l][1]].volume
            \/ /\ processed_items[pending[k][1]].volume = processed_items[pending[l][1]].volume
               /\ pending[k][1] < pending[l][1]

\* a step of bin packing takes the first pending unit and gives it the first
\* feasible origin of the scan, in the original orientation if that has a
\* feasible origin, else in the swapped one; the unit stays unplaced only
\* when neither orientation has a feasible origin
BinPackingStepFirstFit ==
    BinPackingStep =>
        LET u == processed_items[NextUnit]
            v == processed_items'[NextUnit]
            original == Rotations(u)[1]
            swapped == Rotations(u)[2]
            used == <<v.length, v.width, v.height>>
        IN  /\ pending' = Tail(pending)
            /\ \A j \in 1..Len(processed_items) :
                  j # NextUnit => processed_items'[j] = processed_items[j]
            /\ v.placed =>
                  /\ used \in {original, swapped}
                  /\ v.position \in ScanGrid(used)
                  /\ FeasibleOrigin(u, used, v.position)
                  /\ \A o \in ScanGrid(used) :
                        ScannedBefore(o, v.position) => ~FeasibleOrigin(u, used, o)
                  /\ used # original =>
                        \A o \in ScanGrid(original) : ~FeasibleOrigin(u, original, o)
            /\ ~v.placed =>
                  /\ \A o \in ScanGrid(original) : ~FeasibleOrigin(u, original, o)
                  /\ \A o \in ScanGrid(swapped) : ~FeasibleOrigin(u, swapped, o)

\* C19: bin packing attempts the units in non-increasing volume order, ties
\* in input order, and gives every placed unit the first feasible origin of
\* the x-outer, y-middle, z-inner scan in steps of 0.5 from (0, 0, 0); the
\* swapped orientation is used only when the original one has no feasible
\* origin, and a unit is left unplaced only when neither has one.
C19_BinPackingFirstFit ==
    /\ [](pc = "placing" /\ algorithm = "bin_packing" => PendingByVolume)
    /\ [][pc' = "placing" /\ pc # "placing" /\ algorithm' = "bin_packing" =>
            /\ Len(pending') = Len(processed_items')
            /\ {pending'[k][1] : k \in 1..Len(pending')} = 1..Len(processed_items')]_vars
    /\ [][algorithm = "bin_packing" => BinPackingStepFirstFit]_vars

\* a bin-packing run has returned with a unit placed in the swapped
\* orientation, a unit placed away from (0, 0, 0) and a unit left unplaced
C19_Witness ==
    /\ Returned
    /\ algorithm = "bin_packing"
    /\ \E i, j, k \in 1..Len(processed_items) :
          /\ processed_items[i].placed /\ processed_items[i].rotation = 90
          /\ processed_items[j].placed /\ processed_items[j].position # <<0, 0, 0>>
          /\ ~processed_items[k].placed

\* the pass that attempts a unit under 'hybrid': bin packing for a volume
\* strictly above 1 % of the warehouse volume, space filling otherwise
HybridPass(u) ==
    IF 100 * u.volume > warehouse_volume THEN "bin_packing" ELSE "space_filling"

\* the grid and the tracker hold every unit placed so far
PlacedUnitsRecorded ==
    /\ Len(placed_items_tracker) = Len(result)
    /\ \A k \in 1..Len(result) :
          /\ processed_items[result[k]].placed
          /\ BoxVoxels(processed_items[result[k]].length, processed_items[result[k]].width,
                       processed_items[result[k]].height,
                       processed_items[result[k]].position[1],
                       processed_items[result[k]].position[2],
                       processed_items[result[k]].position[3]) \subseteq occupancy_grid
          /\ placed_items_tracker[k].bounds = UnitBox(processed_items[result[k]])

\* a step on a small unit under 'hybrid' comes after every large unit has
\* been attempted and tests the unit against the grid and the tracker as
\* the large units left them
HybridSmallStep ==
    (algorithm = "hybrid" /\ SpaceFillingStep) =>
        /\ \A k \in 1..Len(pending) : pending[k][2] = "space_filling"
        /\ \A i \in 1..Len(processed_items) :
              HybridPass(processed_items[i]) = "bin_packing" =>
                  \A k \in 1..Len(pending) : pending[k][1] # i
        /\ processed_items'[NextUnit].placed =>
              _can_place_item(occupancy_grid, placed_items_tracker,
                              processed_items[NextUnit],
                              processed_items'[NextUnit].position)

\* C20: under 'hybrid' a unit is large exactly when its volume is strictly
\* above 1 % of the warehouse volume; every large unit is attempted, by bin
\* packing, before any small unit, by space filling; the small units are
\* tested against the grid and the tracker the large units filled; the
\* returned placed list is the placed large units followed by the placed
\* small units.
C20_HybridLargeFirst ==
    /\ [](algorithm = "hybrid" /\ pc \in {"placing", "done"} =>
            /\ \A k \in 1..Len(pending) :
                  pending[k][2] = HybridPass(processed_items[pending[k][1]])
            /\ \A k, l \in 1..Len(pending) :
                  k < l => ~(pending[k][2] = "space_filling" /\ pending[l][2] = "bin_packing")
            /\ \A k, l \in 1..Len(result) :
                  k < l => ~(/\ HybridPass(processed_items[result[k]]) = "space_filling"
                             /\ HybridPass(processed_items[result[l]]) = "bin_packing")
            /\ PlacedUnitsRecorded)
    /\ [][pc' = "placing" /\ pc # "placing" /\ algorithm' = "hybrid" =>
            /\ Len(pending') = Len(processed_items')
            /\ {pending'[k][1] : k \in 1..Len(pending')} = 1..Len(processed_items')]_vars
    /\ [][HybridSmallStep]_vars

\* a hybrid run has returned a placed large unit followed by a placed unit
\* of exactly 1 % of the warehouse volume, which was attempted as small
C20_Witness ==
    /\ Returned
    /\ algorithm = "hybrid"
    /\ Len(result) >= 2
    /\ 100 * processed_items[result[1]].volume > warehouse_volume
    /\ \E k \in 2..Len(result) :
          /\ 100 * processed_items[result[k]].volume = warehouse_volume
          /\ processed_items[result[k]].position[3] = 0
          /\ processed_items[result[k]].position # <<0, 0, 0>>

\* the origins the zone scan visits for the extents dims in the floor
\* rectangle b = <<x_lo, x_hi, y_lo, y_hi>>: steps of 0.5 from the corner
\* (x_lo, y_lo, 0), below x_hi and y_hi, the box inside the warehouse
ZoneGrid(dims, b) ==
    {<<b[1] + grid_resolution * i, b[3] + grid_resolution * j, grid_resolution * k>> :
        i \in 0..((Min(b[2], warehouse_length - dims[1] + ScanSlack) - 1 - b[1])
                    \div grid_resolution),
        j \in 0..((Min(b[4], warehouse_width - dims[2] + ScanSlack) - 1 - b[3])
                    \div grid_resolution),
        k \in 0..((warehouse_height - dims[3]) \div grid_resolution)}

\* the planar point of the origin o lies in the floor rectangle b
InFloorRectangle(o, b) == b[1] <= o[1] /\ o[1] < b[2] /\ b[3] <= o[2] /\ o[2] < b[4]

\* the attempts still to make are in non-increasing access-priority order,
\* units of equal priority in input order
PendingByPriority ==
    \A k, l \in 1..Len(pending) :
        k < l =>
            LET p == processed_items[pending[k][1]].turnover_prediction.access_priority
                q == processed_items[pending[l][1]].turnover_prediction.access_priority
            IN  p > q \/ (p = q /\ pending[k][1] < pending[l][1])

\* a step of the zone-hinted strategy: the unit goes outside the floor
\* rectangle of its zone class, or stays unplaced, only when no origin of the
\* rectangle is feasible for either orientation; the outcome is then the one
\* of the unrestricted scan
ZoneHintedStepPrefersZone ==
    ZoneHintedStep =>
        LET u == processed_items[NextUnit]
            v == processed_items'[NextUnit]
            b == ZoneBounds(u.turnover_prediction.optimal_zone)
            zoneFeasible ==
                \E r \in 1..2 : \E o \in ZoneGrid(Rotations(u)[r], b) :
                    FeasibleOrigin(u, Rotations(u)[r], o)
            unrestricted == _find_best_position(occupancy_grid, placed_items_tracker, u)
        IN  /\ pending' = Tail(pending)
            /\ zoneFeasible =>
                  /\ v.placed
                  /\ v.position \in ZoneGrid(<<v.length, v.width, v.height>>, b)
                  /\ InFloorRectangle(v.position, b)
            /\ (v.placed /\ ~InFloorRectangle(v.position, b)) => ~zoneFeasible
            /\ ~zoneFeasible =>
                  /\ v.placed <=> unrestricted.position # None
                  /\ v.placed =>
                        v = [unrestricted.item EXCEPT !.placed = TRUE,
                                                      !.position = unrestricted.position]
            /\ ~v.placed => ~zoneFeasible /\ unrestricted.position = None

\* C21: the zone-hinted strategy attempts the units in non-increasing
\* access-priority order; it places a unit outside the floor rectangle of its
\* hinted zone class only if no origin inside the rectangle is feasible for
\* either orientation, then at the origin the unrestricted bin-packing scan
\* gives, and leaves it unplaced only if that scan fails too.
C21_ZoneHintedFallback ==
    /\ [](pc = "placing" /\ algorithm = "ml_enhanced" => PendingByPriority)
    /\ [][pc' = "placing" /\ pc # "placing" /\ algorithm' = "ml_enhanced" =>
            /\ Len(pending') = Len(processed_items')
            /\ {pending'[k][1] : k \in 1..Len(pending')} = 1..Len(processed_items')]_vars
    /\ [][ZoneHintedStepPrefersZone]_vars

\* a zone-hinted run has returned with a unit placed inside the rectangle of
\* its zone class and a unit placed outside it by the unrestricted scan
C21_Witness ==
    /\ Returned
    /\ algorithm = "ml_enhanced"
    /\ \E i, j \in 1..Len(processed_items) :
          /\ processed_items[i].placed
          /\ InFloorRectangle(processed_items[i].position,
                              ZoneBounds(processed_items[i].turnover_prediction.optimal_zone))
          /\ processed_items[j].placed
          /\ ~InFloorRectangle(processed_items[j].position,
                               ZoneBounds(processed_items[j].turnover_prediction.optimal_zone))

\* the planar point (x, y), in tenths of a metre, lies in the closed rectangle
\* [xlo/10 * length, xhi/10 * length] x [ylo/10 * width, yhi/10 * width]
InClosedRectangle(x, y, xlo, xhi, ylo, yhi) ==
    /\ xlo * warehouse_length <= 10 * x /\ 10 * x <= xhi * warehouse_length
    /\ ylo * warehouse_width <= 10 * y /\ 10 * y <= yhi * warehouse_width

\* zoneOf as the claim states it: the first rectangle, in table order, that
\* contains the point
ZoneOfPoint(x, y) ==
    IF InClosedRectangle(x, y, 0, 3, 0, 4) THEN "high_velocity"
    ELSE IF InClosedRectangle(x, y, 0, 6, 4, 8) THEN "medium_velocity"
    ELSE IF InClosedRectangle(x, y, 6, 10, 0, 10) THEN "low_velocity"
    ELSE IF InClosedRectangle(x, y, 3, 6, 0, 4) THEN "bulk_storage"
    ELSE "unassigned"

\* the zone names under which the returned picking_zones list the unit at
\* the planar point (x, y)
ReportedZones(x, y) ==
    {picking_result.picking_zones[k].zone_name :
        k \in {k \in 1..Len(picking_result.picking_zones) :
                \E m \in 1..Len(picking_result.picking_zones[k].items) :
                    /\ picking_result.picking_zones[k].items[m].position[1] = x
                    /\ picking_result.picking_zones[k].items[m].position[2] = y}}

\* C22: zoneOf is a total function of the planar point: every eligible unit is
\* reported in exactly one zone, the first of high_velocity, medium_velocity,
\* low_velocity, bulk_storage whose rectangle contains the point with
\* inclusive bounds, and in 'unassigned' exactly when no rectangle contains
\* the point, as when x < 0.6 * length and y > 0.8 * width.
C22_ZoneOfFirstContaining ==
    (PickReturned /\ EligibleUnits # {}) =>
        \A i \in EligibleUnits :
            LET x == placed_items[i].position[1]
                y == placed_items[i].position[2]
            IN  /\ ReportedZones(x, y) = {ZoneOfPoint(x, y)}
                /\ ("unassigned" \in ReportedZones(x, y)) <=>
                        ~ \/ InClosedRectangle(x, y, 0, 3, 0, 4)
                          \/ InClosedRectangle(x, y, 0, 6, 4, 8)
                          \/ InClosedRectangle(x, y, 6, 10, 0, 10)
                          \/ InClosedRectangle(x, y, 3, 6, 0, 4)
                /\ (10 * x < 6 * warehouse_length /\ 10 * y > 8 * warehouse_width)
                        => ReportedZones(x, y) = {"unassigned"}

\* a path has been planned for a unit on the edge shared by high_velocity and
\* medium_velocity and a unit outside every rectangle
C22_Witness ==
    /\ PickReturned
    /\ \E i, j \in EligibleUnits :
          /\ InClosedRectangle(placed_items[i].position[1], placed_items[i].position[2], 0, 3, 0, 4)
          /\ InClosedRectangle(placed_items[i].position[1], placed_items[i].position[2], 0, 6, 4, 8)
          /\ ReportedZones(placed_items[i].position[1], placed_items[i].position[2])
                = {"high_velocity"}
          /\ ReportedZones(placed_items[j].position[1], placed_items[j].position[2])
                = {"unassigned"}

\* the priority of a zone name as the claim states it
PriorityOfZone(zone) ==
    CASE zone = "high_velocity" -> 1
      [] zone = "medium_velocity" -> 2
      [] zone = "low_velocity" -> 3
      [] zone = "bulk_storage" -> 4
      [] OTHER -> 99

\* the zone of a waypoint
WaypointZone(k) ==
    ZoneOfPoint(picking_result.waypoints[k][1], picking_result.waypoints[k][2])

\* C23: in every planned path the zone_sequence lists each zone that has an
\* eligible unit exactly once, in strictly ascending priority with 'unassigned'
\* (99) last, and the waypoints follow the zone_sequence: the waypoints of one
\* zone are contiguous and no waypoint of a lower-priority zone precedes a
\* waypoint of a higher-priority zone.
C23_ZoneSequenceByPriority ==
    PickReturned =>
        LET zs == picking_result.zone_sequence
            n == Len(picking_result.waypoints)
        IN  /\ {zs[k] : k \in 1..Len(zs)} =
                    {ZoneOfPoint(placed_items[i].position[1], placed_items[i].position[2]) :
                        i \in EligibleUnits}
            /\ \A k, l \in 1..Len(zs) :
                    k < l => PriorityOfZone(zs[k]) < PriorityOfZone(zs[l])
            /\ \A k \in 1..Len(zs) :
                    zs[k] = "unassigned" => k = Len(zs)
            /\ \A a, b \in 1..n :
                    a < b => PriorityOfZone(WaypointZone(a)) <= PriorityOfZone(WaypointZone(b))
            /\ \A a, b, c \in 1..n :
                    (a < b /\ b < c /\ WaypointZone(a) = WaypointZone(c))
                        => WaypointZone(b) = WaypointZone(a)
            /\ \A a \in 1..n : \E k \in 1..Len(zs) : zs[k] = WaypointZone(a)

\* a path has been planned over three zones whose units arrived against the
\* priority order, an unassigned unit first
C23_Witness ==
    /\ PickReturned
    /\ Len(picking_result.zone_sequence) = 3
    /\ Len(picking_result.waypoints) = 3
    /\ pick_list = <<>>
    /\ ZoneOfPoint(placed_items[1].position[1], placed_items[1].position[2]) = "unassigned"
    /\ PriorityOfZone(ZoneOfPoint(placed_items[2].position[1], placed_items[2].position[2]))
         > PriorityOfZone(ZoneOfPoint(placed_items[3].position[1], placed_items[3].position[2]))

\* the eligible units of a zone and the places of the zone's waypoints
ZoneUnits(zone) ==
    {i \in EligibleUnits :
        ZoneOfPoint(placed_items[i].position[1], placed_items[i].position[2]) = zone}

ZoneWaypoints(zone) ==
    {a \in 1..Len(picking_result.waypoints) : WaypointZone(a) = zone}

\* the square of the planar distance between two placed units
PlanarDistance(i, j) ==
    (placed_items[i].position[1] - placed_items[j].position[1])
        * (placed_items[i].position[1] - placed_items[j].position[1])
    + (placed_items[i].position[2] - placed_items[j].position[2])
        * (placed_items[i].position[2] - placed_items[j].position[2])

\* the waypoints of the zone visit its units in nearest-neighbour order: f
\* names the unit visited at each waypoint
NearestNeighbourOrder(zone) ==
    LET W == ZoneWaypoints(zone)
        U == ZoneUnits(zone)
        first == CHOOSE a \in W : \A b \in W : a <= b
    IN  \E f \in [W -> U] :
            /\ \A a, b \in W : a # b => f[a] # f[b]
            /\ {f[a] : a \in W} = U
            /\ \A a \in W : picking_result.waypoints[a] = placed_items[f[a]].position
            /\ \A i \in U : f[first] <= i
            /\ \A a \in W \ {first} :
                    \A j \in U \ {f[b] : b \in {b \in W : b < a}} :
                        \/ PlanarDistance(f[a - 1], f[a]) < PlanarDistance(f[a - 1], j)
                        \/ /\ PlanarDistance(f[a - 1], f[a]) = PlanarDistance(f[a - 1], j)
                           /\ f[a] <= j

\* C24: within each zone group of two or more units the visit order is the
\* nearest-neighbour order: the first visited unit is the first of the group
\* in arrival order, every later one is nearest in the plane to the unit
\* visited before it among the units not yet visited (ties by arrival order),
\* and every unit of the group is visited exactly once.
C24_NearestNeighbourInZone ==
    PickReturned =>
        \A zone \in {"high_velocity", "medium_velocity", "low_velocity",
                     "bulk_storage", "unassigned"} :
            Cardinality(ZoneUnits(zone)) >= 2 =>
                /\ Cardinality(ZoneWaypoints(zone)) = Cardinality(ZoneUnits(zone))
                /\ NearestNeighbourOrder(zone)

\* a path has been planned for three units of one zone and visits the third
\* before the second, which is farther from the first
C24_Witness ==
    /\ PickReturned
    /\ Cardinality(EligibleUnits) = 3
    /\ Len(placed_items) = 3
    /\ Len(picking_result.zone_sequence) = 1
    /\ PlanarDistance(1, 3) < PlanarDistance(1, 2)
    /\ picking_result.waypoints =
            <<placed_items[1].position, placed_items[3].position, placed_items[2].position>>

\* C25: for every planned path with n >= 1 waypoints the distance-annotated
\* segment list has n - 1 entries, the i-th from waypoint i to waypoint i + 1,
\* the hop between two zones included, so that the segment distances add up
\* to the total distance, the sum of the distances of consecutive waypoints.
C25_SegmentsCoverPath ==
    (PickReturned /\ Len(picking_result.waypoints) >= 1) =>
        LET wp == picking_result.waypoints
            segs == picking_result.path_data.path_segments
        IN  /\ Len(segs) = Len(wp) - 1
            /\ \A k \in 1..Len(segs) :
                    /\ segs[k].from = wp[k]
                    /\ segs[k].to = wp[k + 1]
            /\ [k \in 1..Len(segs) |-> segs[k].distance] = picking_result.total_distance

\* a workflow request has returned its report
WorkflowReturned == pc = "done" /\ workflow_report # None

\* the number of zones whose traffic exceeds the congestion threshold
CongestedZones ==
    Cardinality({k \in 1..Len(ZoneNames) :
        workflow_report.workflow_efficiency.traffic_analysis.zone_traffic[k].congestion_risk
            = "high"})

\* C26: in the workflow report the traffic component of the overall score is
\* max(0, 100 - 20 * k), k the number of zones whose traffic exceeds the
\* congestion threshold, so 100 when no zone exceeds it, and the overall score
\* is 0.4 * layout + 0.3 * density + 0.3 * traffic with that traffic value.
C26_TrafficScoreCountsCongestedZones ==
    WorkflowReturned =>
        LET report == workflow_report.workflow_efficiency
            density_score ==
                Max(0, 10000 - 5 * Abs(report.picking_density.overall_density - 1500))
            traffic_score == Max(0, 10000 - 2000 * CongestedZones)
        IN  report.overall_score =
                RoundHalfEven(4 * report.layout_efficiency.overall
                                + 3 * density_score + 3 * traffic_score, 10)

\* the number of placed units that zoneOf assigns to the k-th zone of the table
UnitsAssignedTo(k) ==
    Cardinality({i \in 1..Len(placed_items) :
        ZoneOfPoint(placed_items[i].position[1], placed_items[i].position[2]) = ZoneNames[k]})

\* C30: the per-zone item counts of the workflow analyzer and of the
\* zone-layout analysis (zone densities, traffic, zone_analysis item_count)
\* agree with zoneOf: each placed unit is counted in exactly the zone zoneOf
\* assigns to its position, so the counts sum to at most the number of placed
\* units, also for units on a boundary shared by two zone rectangles.
C30_ZoneCountsAgreeWithZoneOf ==
    WorkflowReturned =>
        LET analysis == workflow_report.zone_optimization.zone_analysis
            report == workflow_report.workflow_efficiency
        IN  /\ \A k \in 1..Len(ZoneNames) :
                    /\ analysis[k].item_count = UnitsAssignedTo(k)
                    /\ report.traffic_analysis.zone_traffic[k].traffic_score =
                            RoundHalfEven(100 * UnitsAssignedTo(k), PriorityOfZone(ZoneNames[k]))
                    /\ report.picking_density.zone_densities[k] =
                            RoundHalfEven(100000000 * UnitsAssignedTo(k), analysis[k].density[2])
            /\ SumSeq([k \in 1..Len(ZoneNames) |-> analysis[k].item_count])
                    <= Len(placed_items)

\* C27: with the selector 'auto' optimize always resolves to one of the named
\* strategies and runs it, and never rejects the request as an unknown
\* strategy: with the hint flag enabled it runs the collaborator's
\* recommendation, with the flag disabled it falls back to a safe default.
C27_AutoAlwaysResolves ==
    /\ pc # "idle" /\ algorithm \notin KnownAlgorithms => algorithm # "auto"
    /\ algorithm = "auto" => raised # "ValueError"

\* the seasonal multiplier (in tenths) the expansion used for a name: the one
\* its units carry, the default 1.0 when the name has no unit
MultiplierOf(name) ==
    IF \E u \in 1..Len(processed_items) : processed_items[u].name = name
    THEN processed_items[CHOOSE u \in 1..Len(processed_items) :
                            processed_items[u].name = name].seasonal_factor
    ELSE 10

\* C28: unit expansion creates, for an item spec with quantity q and seasonal
\* multiplier m, exactly floor(q * m) units, so q units under the default
\* multiplier 1.0 and no unit when q = 0; the total number of units is the sum
\* of these counts over all item specs.
C28_ExpansionCreatesFloorUnits ==
    pc = "expanded" =>
        /\ \A name \in {items[i].name : i \in 1..Len(items)} :
                Cardinality({u \in 1..Len(processed_items) : processed_items[u].name = name})
                    = SumSeq([i \in 1..Len(items) |->
                                IF items[i].name = name
                                THEN (items[i].quantity * MultiplierOf(name)) \div 10
                                ELSE 0])
        /\ Len(processed_items) =
                SumSeq([i \in 1..Len(items) |->
                            (items[i].quantity * MultiplierOf(items[i].name)) \div 10])

\* C29: for every optimize run on a warehouse of positive volume, with any
\* strategy and any item list, the placed units' volumes add up to at most
\* the warehouse volume: volume_used <= volume_total and
\* utilization_percentage <= 100.
C29_PlacedVolumeWithinWarehouse ==
    (Returned /\ warehouse_volume > 0 /\ processed_items # <<>>) =>
        /\ ReturnedVolume <= warehouse_volume
        /\ metrics.volume_used <= metrics.volume_total
        /\ metrics.utilization <= 10000

====
